---- MODULE Spec2Model ----
(***************************************************************************)
(* The risk worker of risk_engine: the Kafka consume loop                  *)
(* (MarketDataConsumer.consume), the coordinator (main and                 *)
(* process_market_update), the curve builder (YieldCurveBuilder), the      *)
(* bump-and-reprice calculator (RiskCalculator) and the store writer       *)
(* (RedisWriter).  Rates are integers in basis points (0.0001 = 1),        *)
(* times are integers in milliseconds.                                     *)
(***************************************************************************)
EXTENDS Integers, Sequences, FiniteSets, TLC

(***************************************************************************)
(* Bounds of the model.                                                    *)
(***************************************************************************)
\* messages the bus delivers in one behaviour
MaxMsgs == 2
\* the same in the runs that reach the aggregation pass
MaxAggMsgs == 6
\* worker crashes (each followed by a restart) in one behaviour
MaxCrashes == 1
\* wall-clock reads that find the clock advanced by ClockStepMs
MaxClockSteps == 1
\* store commands in a row that one outage of the store makes fail
MaxOutage == 2

(***************************************************************************)
(* Program constants.                                                      *)
(***************************************************************************)
\* YieldCurveBuilder.TENORS, in dict order
TENORS == <<"1M", "3M", "6M", "1Y", "2Y", "3Y", "5Y", "7Y", "10Y", "20Y", "30Y">>
\* RiskCalculator.KRD_TENORS
KRD_TENORS == <<"2Y", "5Y", "10Y", "30Y">>
\* settings.bump_size, 0.0001, in basis points
bump_size == 1
\* write_yield_curve keeps the last hour of history
HourMs == 3600000
\* main aggregates every 5th processed message
AggregateEvery == 5
\* settings.redis_ttl, seconds
RedisTtl == 3600

Range(s) == {s[k] : k \in DOMAIN s}
TenorSet == Range(TENORS)
KrdSet == Range(KRD_TENORS)

(***************************************************************************)
(* The inputs: the portfolio loaded at startup and what the bus carries.   *)
(***************************************************************************)
\* the loaded portfolio, in listing order: a bond and a swap
portfolio == <<"bond1", "swap1">>
Instruments == Range(portfolio)

\* wall clock at worker start, and how far one late read finds it advanced
StartMs == 7200000
ClockStepMs == 3600000

\* a tick quoting every tenor, and one quoting a subset plus an unknown tenor
RatesFull ==
  [t \in TenorSet |->
     CASE t = "1M" -> 525 [] t = "3M" -> 520 [] t = "6M" -> 510
       [] t = "1Y" -> 480 [] t = "2Y" -> 420 [] t = "3Y" -> 415
       [] t = "5Y" -> 410 [] t = "7Y" -> 415 [] t = "10Y" -> 420
       [] t = "20Y" -> 440 [] t = "30Y" -> 450]
RatesPartial == [t \in {"2Y", "15Y"} |-> IF t = "2Y" THEN 430 ELSE 999]

TickFull ==
  [kind |-> "tick", timestamp |-> StartMs, curve_date |-> 1, rates |-> RatesFull]
TickPartial ==
  [kind |-> "tick", timestamp |-> StartMs + 1000, curve_date |-> 1,
   rates |-> RatesPartial]
\* a body that is valid UTF-8 but no JSON, and one that is not valid UTF-8
BadJson == [kind |-> "bad_json"]
BadUtf8 == [kind |-> "bad_utf8"]
Messages == {TickFull, TickPartial, BadJson, BadUtf8}

\* ticks at the edges of update_rates: no rates at all, only a tenor the
\* builder does not know, and a rate that is no number ("5Y": "" or "n/a"
\* or null; the value kept for it in rates is never read)
TickEmpty ==
  [kind |-> "tick", timestamp |-> StartMs + 2000, curve_date |-> 1,
   rates |-> [t \in {} |-> 0]]
TickUnknownOnly ==
  [kind |-> "tick", timestamp |-> StartMs + 3000, curve_date |-> 1,
   rates |-> [t \in {"15Y"} |-> 999]]
TickBadRate ==
  [kind |-> "tick", timestamp |-> StartMs + 4000, curve_date |-> 1,
   rates |-> [t \in {"2Y", "5Y", "10Y"} |->
                CASE t = "2Y" -> 425 [] t = "5Y" -> 0 [] t = "10Y" -> 421],
   non_numeric |-> {"5Y"}]
\* a tick whose own timestamp is more than an hour behind the clock
TickStale ==
  [kind |-> "tick", timestamp |-> StartMs - HourMs - 1000, curve_date |-> 1,
   rates |-> [t \in {"2Y"} |-> 400]]
\* a later tick that carries the rates of TickFull again
TickRepeat ==
  [kind |-> "tick", timestamp |-> StartMs + 5000, curve_date |-> 1,
   rates |-> RatesFull]
CurveMessages ==
  {TickFull, TickPartial, TickEmpty, TickUnknownOnly, TickBadRate, TickStale,
   TickRepeat}
\* the tenors of a tick whose rate is no number
NonNumeric(m) == IF "non_numeric" \in DOMAIN m THEN m.non_numeric ELSE {}
NoMsg == [kind |-> "none"]

(***************************************************************************)
(* Pricing.  BondPricer.price and SwapPricer.price discount the            *)
(* instrument's cash flows on the curve bootstrapped from the current      *)
(* quotes at the current evaluation date.  The model keeps what the        *)
(* callers use: the price is a deterministic function of the instrument,   *)
(* the quote vector and the evaluation date, and it moves with every       *)
(* quote the instrument is exposed to.                                     *)
(***************************************************************************)
RECURSIVE WeightedSum(_, _, _)
WeightedSum(q, w, k) ==
  IF k = 0 THEN 0 ELSE w[k] * q[TENORS[k]] + WeightedSum(q, w, k - 1)

BondWeights == <<0, 0, 2, 4, 20, 30, 10, 0, 0, 0, 0>>
SwapWeights == <<0, 0, 0, 2, 6, 10, 40, 20, 6, 2, 2>>

BondPrice(q, d) == 1000000 + 100 * d - WeightedSum(q, BondWeights, Len(TENORS))
SwapPrice(q, d) == 10 * d + WeightedSum(q, SwapWeights, Len(TENORS)) - 41000

\* RiskCalculator._price_instrument once the curve handle exists
Price(inst, q, d) == IF inst = "bond1" THEN BondPrice(q, d) ELSE SwapPrice(q, d)


\* pricing calls of one calculate: base, DV01 up and down, up and down per KRD tenor
NumPricePoints == 3 + 2 * Len(KRD_TENORS)
\* the pricing call that reprices KRD tenor k up (down is the next one)
KrdPointUp(k) == 3 + 2 * (k - 1) + 1

(***************************************************************************)
(* Store encodings.                                                        *)
(***************************************************************************)
\* str.lower() on the tenor labels the bus can carry
Lower(t) ==
  CASE t = "1M" -> "1m" [] t = "3M" -> "3m" [] t = "6M" -> "6m"
    [] t = "1Y" -> "1y" [] t = "2Y" -> "2y" [] t = "3Y" -> "3y"
    [] t = "5Y" -> "5y" [] t = "7Y" -> "7y" [] t = "10Y" -> "10y"
    [] t = "15Y" -> "15y" [] t = "20Y" -> "20y" [] t = "30Y" -> "30y"

\* Hash fields hold text.  str(x) of a number is the text that float() and
\* int() read back as x; any other text is kept as it is and does not parse.
Str(x) == [lit |-> "number", n |-> x, raw |-> ""]
Text(raw) == [lit |-> "text", n |-> 0, raw |-> raw]
\* float(s) returns a value (otherwise it raises ValueError)
IsNumeric(s) == s.lit = "number"
\* the value float(s) returns
Float(s) == s.n

\* the rate_{tenor} fields write_yield_curve sets for one rates map
RateFields(rates) ==
  [f \in {"rate_" \o Lower(t) : t \in DOMAIN rates} |->
     Str(rates[CHOOSE t \in DOMAIN rates : "rate_" \o Lower(t) = f])]

\* HSET key mapping=new on a hash holding old: new fields win, others stay
HSet(old, new) ==
  [f \in DOMAIN old \cup DOMAIN new |-> IF f \in DOMAIN new THEN new[f] ELSE old[f]]

\* ZADD key {member: score}: a member already present only changes score
ZAdd(zset, member, score) ==
  {e \in zset : e.member # member} \cup {[member |-> member, score |-> score]}

\* ZREMRANGEBYSCORE with the bound taken in seconds where the scores are
\* milliseconds
ZRemRangeByScoreSeconds(zset, max) == {e \in zset : e.score > max \div 1000}

\* ZREMRANGEBYSCORE key -inf max: both ends inclusive
ZRemRangeByScore(zset, max) == {e \in zset : e.score > max}

EmptyHash == [f \in {} |-> 0]
NoRecord == [present |-> FALSE]

\* f"trade:{id}:risk", as the parts between its colons (the ids of the
\* reference service are UUIDs and hold no colon)
TradeRiskKey(id) == <<"trade", id, "risk">>
\* KeyInstrumentId taking the part before the first colon
KeyInstrumentIdFirstPart(key) == key[1]
\* key.split(":")[1]
KeyInstrumentId(key) == key[2]

\* RedisWriter.get_all_trade_risks: the hash of every key matching
\* trade:*:risk, under the instrument id cut out of the key
GetAllTradeRisks(store) ==
  LET keys == {TradeRiskKey(i) : i \in {j \in DOMAIN store : store[j].present}}
  IN  [id \in {KeyInstrumentId(key) : key \in keys} |->
         store[(CHOOSE key \in keys : KeyInstrumentId(key) = id)[2]].hash]

\* result = {} and cursor = 0, no keys scanned yet
NoScan == [cursor |-> 0, keys |-> {}, result |-> EmptyHash]
\* the feed is not part of the run
NoFeed == [pc |-> "off"]
\* no request to the security master is under way
NoMaster == [pc |-> "off"]

\* the fields aggregate_portfolio reads of a record, in the order it reads them
AggFields ==
  <<"npv", "dv01">> \o [k \in DOMAIN KRD_TENORS |-> "krd_" \o Lower(KRD_TENORS[k])]
\* data.get(f, 0); a krd field that is absent is not read, which adds 0 too
FieldText(data, f) == IF f \in DOMAIN data THEN data[f] ELSE Str(0)
\* the place in AggFields of the first field of a record float() raises on
FirstUnparsable(data) ==
  IF \A k \in DOMAIN AggFields : IsNumeric(FieldText(data, AggFields[k]))
    THEN Len(AggFields) + 1
    ELSE CHOOSE k \in DOMAIN AggFields :
           /\ ~IsNumeric(FieldText(data, AggFields[k]))
           /\ \A j \in 1..(k - 1) : IsNumeric(FieldText(data, AggFields[j]))
\* what one record adds to the total of field k: its fields are added one
\* by one inside the try, and the handler of ValueError leaves what was
\* added before the field that does not parse
Added(data, k) ==
  IF k < FirstUnparsable(data) THEN Float(FieldText(data, AggFields[k])) ELSE 0

RECURSIVE SumAdded(_, _, _)
SumAdded(risks, ids, k) ==
  IF ids = {} THEN 0
  ELSE LET id == CHOOSE i \in ids : TRUE
       IN  Added(risks[id], k) + SumAdded(risks, ids \ {id}, k)

\* aggregate_portfolio on the map get_all_trade_risks returned
AggregatePortfolio(risks) ==
  [total_npv |-> SumAdded(risks, DOMAIN risks, 1),
   total_dv01 |-> SumAdded(risks, DOMAIN risks, 2),
   instrument_count |-> Cardinality(DOMAIN risks),
   krd |-> [t \in KrdSet |->
              SumAdded(risks, DOMAIN risks,
                       2 + CHOOSE k \in DOMAIN KRD_TENORS : KRD_TENORS[k] = t)]]

\* the hash write_portfolio_aggregates builds (updated_at left out)
AggregatesHash(a) ==
  HSet([f \in {"total_npv", "total_dv01", "instrument_count"} |->
          CASE f = "total_npv" -> Str(a.total_npv)
            [] f = "total_dv01" -> Str(a.total_dv01)
            [] f = "instrument_count" -> Str(a.instrument_count)],
       [f \in {"total_krd_" \o Lower(t) : t \in DOMAIN a.krd} |->
          Str(a.krd[CHOOSE t \in DOMAIN a.krd : "total_krd_" \o Lower(t) = f])])

(***************************************************************************)
(* The market data feed: the rows of its CSV file and what                 *)
(* parse_timestamp and format_kafka_message make of them.  A row is what   *)
(* csv.DictReader hands out: a text per column of the header, None for a   *)
(* column the row is too short to reach.                                   *)
(***************************************************************************)
MaxRows == 2

\* a cell of a row too short to reach its column
NoneCell == [lit |-> "none", n |-> 0, raw |-> ""]
\* a timestamp text in one of the three formats, standing for the instant t
\* (milliseconds), and one of digits only that is too large for a time
Stamp(form, t) == [lit |-> "stamp", n |-> t, raw |-> form]
HugeStamp == [lit |-> "stamp", n |-> 0, raw |-> "huge"]

\* parse_timestamp: the exception it leaves with, "none" when it returns
\* (None is no str for fromisoformat; digits out of the platform's range
\* make fromtimestamp raise OverflowError, which no except clause names;
\* every other text ends at the final raise ValueError)
ParseTimestampRaises(s) ==
  CASE s.lit = "none" -> "TypeError"
    [] s.lit = "stamp" /\ s.raw \in {"iso", "date", "millis"} -> "none"
    [] s.lit = "stamp" /\ s.raw = "huge" -> "OverflowError"
    [] OTHER -> "ValueError"
\* the instant parse_timestamp returns
ParseTimestamp(s) == s.n

\* parse_timestamp(row["timestamp"]) as the generator calls it: KeyError
\* when the header has no such column
RowTimestampRaises(row) ==
  IF "timestamp" \notin DOMAIN row THEN "KeyError"
  ELSE ParseTimestampRaises(row.timestamp)

\* bool(cell): None and the empty text are false
Truthy(cell) == cell.lit \notin {"none"} /\ cell # Text("")

\* format_kafka_message keeping a tenor whose text float() raised on, with
\* the text as its value
FormatRatesKeepsText(row) ==
  [t \in {u \in TenorSet : u \in DOMAIN row /\ Truthy(row[u])} |->
     IF IsNumeric(row[t]) THEN Float(row[t]) ELSE row[t]]

\* the rates of format_kafka_message: for tenor in tenor_columns, if tenor
\* in row and row[tenor]: try rates[tenor] = float(row[tenor]) except
\* ValueError: continue
FormatRates(row) ==
  [t \in {u \in TenorSet : u \in DOMAIN row /\ Truthy(row[u])
                              /\ IsNumeric(row[u])} |->
     Float(row[t])]

\* timestamp.strftime("%Y-%m-%d"), as the number of the day
DateOf(t) == t \div (24 * HourMs)
\* format_kafka_message(row, timestamp), timestamp being the instant t
FormatKafkaMessage(row, t) ==
  [timestamp |-> t,
   curve_date |-> DateOf(t),
   curve_type |-> IF "curve_type" \in DOMAIN row THEN row.curve_type
                  ELSE "USD_SOFR",
   rates |-> FormatRates(row)]

\* the rows a data file can hold under the header
\* curve_type,timestamp,2Y,5Y,10Y,15Y (15Y is no recognized tenor), the
\* last of them too short to reach any column but the first
Row(stamp, c2, c5, c10, c15) ==
  [curve_type |-> "USD_SOFR", timestamp |-> stamp,
   2Y |-> c2, 5Y |-> c5, 10Y |-> c10, 15Y |-> c15]
RowA ==
  Row(Stamp("iso", StartMs), Str(420), Text("invalid"), Text(""), Str(999))
RowB ==
  Row(Stamp("millis", StartMs + 1000), Str(421), Str(411), NoneCell, NoneCell)
RowBadStamp == Row(Text("invalid-timestamp"), Str(422), Str(412), Str(402), Str(999))
RowEmptyStamp == Row(Text(""), Str(423), Str(413), Str(403), Str(999))
RowHugeStamp == Row(HugeStamp, Str(425), Str(415), Str(405), Str(999))
RowShort == Row(NoneCell, NoneCell, NoneCell, NoneCell, NoneCell)
Rows == {RowA, RowB, RowBadStamp, RowEmptyStamp, RowHugeStamp, RowShort}
\* a row under a header that has no timestamp column
RowNoStamp == [curve_type |-> "USD_SOFR", 2Y |-> Str(424)]
DataFiles ==
  UNION {[1..n -> Rows] \cup [1..n -> {RowNoStamp}] : n \in 0..MaxRows}

VARIABLES
  \* the bus: offsets committed for the group, messages from there on
  committed, pending,
  \* the consumer and main
  pc, position, msg, shutdown_requested, message_count, idx, processed,
  consumer_closed, redis_closed,
  \* YieldCurveBuilder
  quotes, curve_built, evaluation_date,
  \* locals of RiskCalculator.calculate
  original_values, krd_k, original_value, base_npv, npv_up, npv_down, dv01,
  krd, exc,
  \* what the pricer does on this tick: the instruments whose pricing
  \* raises, and the pricing call of the current instrument that raises
  failing, raise_at,
  \* the store
  trade_risk, yc_latest, yc_history, aggregates,
  \* wall clock
  now,
  \* history of the run, read by the properties only
  crashes, entry_quotes, risk_calls, curve_written, risk_written,
  store_failed, stop_cause, sig_during, snapshot,
  \* the process: its exit code once it has ended, the handles it holds
  exit_code, consumer_open, redis_open,
  \* the store's availability: commands that fail before it answers again
  outage,
  \* history of the run: well-formed ticks handed to main by this process,
  \* those of them process_market_update returned for,
  \* and the aggregation pass of the tick in hand ("none", "written",
  \* "failed")
  ticks_seen, ticks_returned, agg_pass,
  \* the reference service's instrument listing; the locals page and
  \* instruments of load_portfolio; main's portfolio, <<>> until assigned
  listing, page, instruments, main_portfolio,
  \* channel risk_updates: the notification just published, NoMsg once it
  \* has gone out (the channel keeps nothing)
  risk_updates,
  \* history of the run: the rates of every tick handed to update_rates so
  \* far, by any worker process, applied in that order to all-zero quotes
  applied,
  \* locals of get_all_trade_risks while it runs: cursor, the keys of the
  \* last SCAN, result
  scan,
  \* the market data feed process: its data file, its settings, where main
  \* and the generator stand, what was yielded and produced
  feed,
  \* the security master: its tables instruments and bonds, the requests
  \* under way and what the client of the listing has got so far
  master

busVars == <<committed, pending>>
mainVars == <<pc, position, msg, shutdown_requested, message_count, idx,
              processed, consumer_closed, redis_closed>>
curveVars == <<quotes, curve_built, evaluation_date>>
calcVars == <<original_values, krd_k, original_value, base_npv, npv_up,
              npv_down, dv01, krd, exc>>
oracleVars == <<failing, raise_at>>
storeVars == <<trade_risk, yc_latest, yc_history, aggregates>>
histVars == <<crashes, entry_quotes, risk_calls, curve_written, risk_written,
              store_failed, stop_cause, sig_during, snapshot>>
handleVars == <<consumer_open, redis_open>>
tickCount == <<ticks_seen, ticks_returned>>
loadVars == <<listing, page, instruments>>
portfolioVars == <<loadVars, main_portfolio>>
sideVars == <<scan, feed, master>>
extCore == <<exit_code, consumer_open, redis_open, outage, tickCount,
             agg_pass, portfolioVars, risk_updates, applied>>
extVars == <<extCore, sideVars>>
vars == <<busVars, mainVars, curveVars, calcVars, oracleVars, storeVars, now,
          histVars, extVars>>

(***************************************************************************)
(* The instrument listing of the reference service and load_portfolio's    *)
(* reading of it.  An item keeps the fields the loader's parsing can fail  *)
(* on: instrument_type, notional and, for swaps, fixed_rate.               *)
(***************************************************************************)
\* longest listing drawn
MaxItems == 3
\* page_size of the requests and the cap of the service (100 and le=100 in
\* the source, scaled so that a listing of three items has two pages)
page_size == 2
ServerPageCap == 2

ItemBond ==
  [instrument_type |-> "BOND", id |-> "bond1", notional |-> Str(1000000)]
ItemSwap ==
  [instrument_type |-> "SWAP", id |-> "swap1", notional |-> Str(5000000),
   fixed_rate |-> Str(4)]
\* a bond whose notional is no number: float() raises ValueError
ItemBadBond ==
  [instrument_type |-> "BOND", id |-> "bond2", notional |-> Text("n/a")]
\* a swap without fixed_rate: item["fixed_rate"] raises KeyError
ItemBadSwap ==
  [instrument_type |-> "SWAP", id |-> "swap2", notional |-> Str(5000000)]
\* an item of a type the loader has no branch for
ItemOther == [instrument_type |-> "FUTURE", id |-> "fut1", notional |-> Str(1)]
Items == {ItemBond, ItemSwap, ItemBadBond, ItemBadSwap, ItemOther}

\* listings of distinct items (ids are primary keys)
Listings ==
  {l \in UNION {[1..n -> Items] : n \in 0..MaxItems} :
     \A i, j \in DOMAIN l : i # j => l[i] # l[j]}
\* the listing behind the portfolio of the worker
PortfolioListing == <<ItemBond, ItemSwap>>

\* list_instruments: total, pages and the slice of the page asked for
ListInstruments(all, pg, size) ==
  LET total == Len(all)
      last == IF pg * size < total THEN pg * size ELSE total
  IN  [items |-> SubSeq(all, (pg - 1) * size + 1, last),
       total |-> total,
       pages |-> IF total > 0 THEN (total + size - 1) \div size ELSE 1]

\* the body of the try for one item: the typed instruments it appends (one
\* or none); an exception is logged and the loop continues
ParseItem(item) ==
  IF item.instrument_type = "BOND"
    THEN IF "notional" \in DOMAIN item /\ IsNumeric(item.notional)
           THEN <<[type |-> "BondData", id |-> item.id,
                   notional |-> Float(item.notional)]>>
           ELSE <<>>
    ELSE IF item.instrument_type = "SWAP"
      THEN IF /\ {"notional", "fixed_rate"} \subseteq DOMAIN item
              /\ IsNumeric(item.notional)
              /\ IsNumeric(item.fixed_rate)
             THEN <<[type |-> "SwapData", id |-> item.id,
                     notional |-> Float(item.notional),
                     fixed_rate |-> Float(item.fixed_rate)]>>
             ELSE <<>>
      ELSE <<>>

\* for item in data["items"]
RECURSIVE ParseItems(_)
ParseItems(items) ==
  IF items = <<>> THEN <<>>
  ELSE ParseItem(Head(items)) \o ParseItems(Tail(items))

\* what load_portfolio returns for the worker's listing
LoadedPortfolio == ParseItems(PortfolioListing)

ZeroQuotes == [t \in TenorSet |-> 0]
NoSnapshot == [taken |-> FALSE]

\* the in-memory state of a freshly started worker, past initialization
FreshWorker ==
  /\ pc = "poll"
  /\ msg = NoMsg
  /\ shutdown_requested = FALSE
  /\ message_count = 0
  /\ idx = 0
  /\ processed = 0
  /\ consumer_closed = FALSE
  /\ redis_closed = FALSE
  /\ quotes = ZeroQuotes
  /\ curve_built = FALSE
  /\ evaluation_date = 0
  /\ original_values = ZeroQuotes
  /\ krd_k = 0
  /\ original_value = 0
  /\ base_npv = 0
  /\ npv_up = 0
  /\ npv_down = 0
  /\ dv01 = 0
  /\ krd = EmptyHash
  /\ exc = FALSE
  /\ failing = {}
  /\ raise_at = 0
  /\ entry_quotes = ZeroQuotes
  /\ risk_calls = <<>>
  /\ curve_written = FALSE
  /\ risk_written = {}
  /\ store_failed = FALSE
  /\ stop_cause = "none"
  /\ sig_during = 0
  /\ exit_code = <<>>
  /\ consumer_open = TRUE
  /\ redis_open = TRUE
  /\ ticks_seen = 0
  /\ ticks_returned = 0
  /\ agg_pass = "none"
  /\ page = 1
  /\ instruments = LoadedPortfolio
  /\ main_portfolio = <<LoadedPortfolio>>

\* the same, as the next state of a restart
Restarted ==
  /\ pc' = "poll"
  /\ msg' = NoMsg
  /\ shutdown_requested' = FALSE
  /\ message_count' = 0
  /\ idx' = 0
  /\ processed' = 0
  /\ consumer_closed' = FALSE
  /\ redis_closed' = FALSE
  /\ quotes' = ZeroQuotes
  /\ curve_built' = FALSE
  /\ evaluation_date' = 0
  /\ original_values' = ZeroQuotes
  /\ krd_k' = 0
  /\ original_value' = 0
  /\ base_npv' = 0
  /\ npv_up' = 0
  /\ npv_down' = 0
  /\ dv01' = 0
  /\ krd' = EmptyHash
  /\ exc' = FALSE
  /\ failing' = {}
  /\ raise_at' = 0
  /\ entry_quotes' = ZeroQuotes
  /\ risk_calls' = <<>>
  /\ curve_written' = FALSE
  /\ risk_written' = {}
  /\ store_failed' = FALSE
  /\ stop_cause' = "none"
  /\ sig_during' = 0
  /\ exit_code' = <<>>
  /\ consumer_open' = TRUE
  /\ redis_open' = TRUE
  /\ ticks_seen' = 0
  /\ ticks_returned' = 0
  /\ agg_pass' = "none"
  /\ page' = 1
  /\ instruments' = LoadedPortfolio
  /\ main_portfolio' = <<LoadedPortfolio>>

\* no scan is under way and nothing but the worker runs
SideIdle ==
  /\ scan = NoScan
  /\ feed = NoFeed
  /\ master = NoMaster

WorkerInit ==
  /\ committed = 0
  /\ pending = <<>>
  /\ position = 1
  /\ FreshWorker
  /\ trade_risk = [i \in Instruments |-> NoRecord]
  /\ yc_latest = EmptyHash
  /\ yc_history = {}
  /\ aggregates = EmptyHash
  /\ now = StartMs
  /\ crashes = 0
  /\ snapshot = NoSnapshot
  /\ outage = 0
  /\ listing = PortfolioListing
  /\ risk_updates = NoMsg
  /\ applied = ZeroQuotes

Init ==
  /\ WorkerInit
  /\ SideIdle

\* the state when main is entered: nothing is loaded, no handle is held;
\* page and instruments have the values load_portfolio starts them with
StartState ==
  /\ committed = 0
  /\ pending = <<>>
  /\ position = 1
  /\ trade_risk = [i \in Instruments |-> NoRecord]
  /\ yc_latest = EmptyHash
  /\ yc_history = {}
  /\ aggregates = EmptyHash
  /\ now = StartMs
  /\ crashes = 0
  /\ snapshot = NoSnapshot
  /\ outage = 0
  /\ pc = "load_portfolio"
  /\ msg = NoMsg
  /\ shutdown_requested = FALSE
  /\ message_count = 0
  /\ idx = 0
  /\ processed = 0
  /\ consumer_closed = FALSE
  /\ redis_closed = FALSE
  /\ quotes = ZeroQuotes
  /\ curve_built = FALSE
  /\ evaluation_date = 0
  /\ original_values = ZeroQuotes
  /\ krd_k = 0
  /\ original_value = 0
  /\ base_npv = 0
  /\ npv_up = 0
  /\ npv_down = 0
  /\ dv01 = 0
  /\ krd = EmptyHash
  /\ exc = FALSE
  /\ failing = {}
  /\ raise_at = 0
  /\ entry_quotes = ZeroQuotes
  /\ risk_calls = <<>>
  /\ curve_written = FALSE
  /\ risk_written = {}
  /\ store_failed = FALSE
  /\ stop_cause = "none"
  /\ sig_during = 0
  /\ exit_code = <<>>
  /\ consumer_open = FALSE
  /\ redis_open = FALSE
  /\ ticks_seen = 0
  /\ ticks_returned = 0
  /\ agg_pass = "none"
  /\ page = 1
  /\ instruments = <<>>
  /\ main_portfolio = <<>>
  /\ risk_updates = NoMsg
  /\ applied = ZeroQuotes
  /\ SideIdle

\* the worker's start against the listing of its portfolio
StartInit == StartState /\ listing = PortfolioListing

(***************************************************************************)
(* MarketDataConsumer.consume: poll, decode, yield, commit.                *)
(***************************************************************************)
\* offsets the bus holds so far
Produced == committed + Len(pending)
\* pending without the messages consumed up to position
Unconsumed == SubSeq(pending, position - committed, Len(pending))
\* in the middle of process_market_update or of what follows it in main
InTick ==
  pc \notin {"poll", "msg_none", "decode", "yielded", "finally", "close_redis",
             "stopped", "load_portfolio", "load_return", "check_portfolio",
             "connect_store", "open_consumer", "exited"}

iterVars == <<idx, processed>>
endVars == <<consumer_closed, redis_closed>>
tickHist == <<entry_quotes, risk_calls, curve_written, risk_written, store_failed>>

\* consumer.poll(timeout) returns a message: a redelivered one, or a new
\* one, which the producers take from M as long as the topic holds less
\* than max messages
PollMessageFrom(M, max) ==
  /\ pc = "poll"
  /\ \/ /\ position <= Produced
        /\ msg' = pending[position - committed]
        /\ UNCHANGED pending
     \/ /\ position = Produced + 1
        /\ Produced < max
        /\ \E m \in M :
             /\ msg' = m
             /\ pending' = Append(pending, m)
  /\ position' = position + 1
  /\ pc' = "decode"
  /\ UNCHANGED <<extVars, committed, shutdown_requested, message_count, iterVars,
                 endVars, curveVars, calcVars, oracleVars, storeVars, now,
                 histVars>>

PollMessage == PollMessageFrom(Messages, MaxMsgs)

\* consumer.poll(timeout) returns None after the timeout (or a partition EOF)
PollNone ==
  /\ pc = "poll"
  /\ position = Produced + 1
  /\ msg' = NoMsg
  /\ pc' = "msg_none"
  /\ UNCHANGED <<extVars, busVars, position, shutdown_requested, message_count,
                 iterVars, endVars, curveVars, calcVars, oracleVars,
                 storeVars, now, histVars>>

\* if msg is None: continue
ContinuePoll ==
  /\ pc = "msg_none"
  /\ pc' = "poll"
  /\ UNCHANGED <<extVars, busVars, position, msg, shutdown_requested, message_count,
                 iterVars, endVars, curveVars, calcVars, oracleVars,
                 storeVars, now, histVars>>

\* msg.error() other than partition EOF: KafkaException leaves the generator
\* and the for loop of main, whose outer handler logs it
PollError ==
  /\ pc = "poll"
  /\ msg' = NoMsg
  /\ pc' = "finally"
  /\ stop_cause' = "bus_error"
  /\ UNCHANGED <<extVars, busVars, position, shutdown_requested, message_count,
                 iterVars, endVars, curveVars, calcVars, oracleVars,
                 storeVars, now, crashes, tickHist, sig_during, snapshot>>

\* consumer.commit(asynchronous=False): the consumed position is committed
CommitOffsets ==
  /\ committed' = position - 1
  /\ pending' = Unconsumed

\* json.loads(msg.value().decode("utf-8")) succeeds: yield value
DecodeYield ==
  /\ pc = "decode"
  /\ msg.kind = "tick"
  /\ pc' = "yielded"
  /\ UNCHANGED <<extVars, busVars, position, msg, shutdown_requested, message_count,
                 iterVars, endVars, curveVars, calcVars, oracleVars,
                 storeVars, now, histVars>>

\* json.JSONDecodeError: logged, committed, next poll
DecodeJsonError ==
  /\ pc = "decode"
  /\ msg.kind = "bad_json"
  /\ CommitOffsets
  /\ pc' = "poll"
  /\ UNCHANGED <<extVars, position, msg, shutdown_requested, message_count, iterVars,
                 endVars, curveVars, calcVars, oracleVars, storeVars, now,
                 histVars>>

\* UnicodeDecodeError is no JSONDecodeError: it leaves the generator and the
\* for loop of main, whose outer handler logs it
DecodeUnicodeError ==
  /\ pc = "decode"
  /\ msg.kind = "bad_utf8"
  /\ pc' = "finally"
  /\ stop_cause' = "decode_error"
  /\ UNCHANGED <<extVars, busVars, position, msg, shutdown_requested, message_count,
                 iterVars, endVars, curveVars, calcVars, oracleVars,
                 storeVars, now, crashes, tickHist, sig_during, snapshot>>

\* the generator is resumed after the yield: commit, next poll
ResumeCommit ==
  /\ pc = "resume"
  /\ CommitOffsets
  /\ pc' = "poll"
  /\ UNCHANGED <<extVars, position, msg, shutdown_requested, message_count, iterVars,
                 endVars, curveVars, calcVars, oracleVars, storeVars, now,
                 histVars>>

(***************************************************************************)
(* main: the loop body.                                                    *)
(***************************************************************************)
\* ShutdownBreak with the yielded message committed on the way out
ShutdownBreakCommits ==
  /\ pc = "yielded"
  /\ shutdown_requested
  /\ CommitOffsets
  /\ pc' = "finally"
  /\ stop_cause' = "shutdown"
  /\ UNCHANGED <<extVars, position, msg, shutdown_requested, message_count,
                 iterVars, endVars, curveVars, calcVars, oracleVars,
                 storeVars, now, crashes, tickHist, sig_during, snapshot>>

\* if shutdown_requested: break.  The generator is closed at its yield, so
\* the yielded message is not committed.
ShutdownBreak ==
  /\ pc = "yielded"
  /\ shutdown_requested
  /\ pc' = "finally"
  /\ stop_cause' = "shutdown"
  /\ UNCHANGED <<extVars, busVars, position, msg, shutdown_requested, message_count,
                 iterVars, endVars, curveVars, calcVars, oracleVars,
                 storeVars, now, crashes, tickHist, sig_during, snapshot>>

\* process_market_update is entered; F is the set of instruments whose
\* pricing raises on this tick
BeginProcess(F) ==
  /\ pc = "yielded"
  /\ ~shutdown_requested
  /\ failing' = F
  /\ risk_calls' = <<>>
  /\ curve_written' = FALSE
  /\ risk_written' = {}
  /\ store_failed' = FALSE
  /\ ticks_seen' = ticks_seen + 1
  /\ agg_pass' = "none"
  /\ pc' = "update_rates"
  /\ UNCHANGED <<sideVars, portfolioVars, risk_updates, applied,
                 ticks_returned, exit_code, handleVars, outage, busVars, position, msg, shutdown_requested, message_count,
                 iterVars, endVars, curveVars, calcVars, raise_at, storeVars,
                 now, crashes, entry_quotes, stop_cause, sig_during, snapshot>>


(***************************************************************************)
(* process_market_update.                                                  *)
(***************************************************************************)
\* UpdatedQuotes with the quotes of absent tenors reset instead of kept
UpdatedQuotesResetsAbsent(q, rates) ==
  [t \in TenorSet |-> IF t \in DOMAIN rates THEN rates[t] ELSE 0]

\* YieldCurveBuilder.update_rates: the quotes after applying a rates map
UpdatedQuotes(q, rates) ==
  [t \in TenorSet |-> IF t \in DOMAIN rates THEN rates[t] ELSE q[t]]

\* curve_builder.update_rates(message["rates"], message["curve_date"])
UpdateRates ==
  /\ pc = "update_rates"
  /\ NonNumeric(msg) \cap TenorSet = {}
  /\ quotes' = UpdatedQuotes(quotes, msg.rates)
  /\ evaluation_date' = msg.curve_date
  /\ curve_built' = TRUE
  /\ applied' = UpdatedQuotes(applied, msg.rates)
  /\ pc' = "write_yield_curve"
  /\ UNCHANGED <<exit_code, handleVars, outage, tickCount, agg_pass,
                 sideVars, portfolioVars, risk_updates, busVars, position, msg, shutdown_requested, message_count,
                 iterVars, endVars, calcVars, oracleVars, storeVars, now,
                 histVars>>

\* the place in TENORS of the first recognized tenor of a tick whose rate is
\* no number (ticks list their tenors in the order of TENORS)
FirstNonNumeric(m) ==
  CHOOSE k \in DOMAIN TENORS :
    /\ TENORS[k] \in NonNumeric(m)
    /\ \A j \in 1..(k - 1) : TENORS[j] \notin NonNumeric(m)

\* the quotes set by the loop of update_rates before setValue raises
QuotesBeforeRaise(q, m) ==
  [t \in TenorSet |->
     IF /\ t \in DOMAIN m.rates
        /\ \E k \in 1..(FirstNonNumeric(m) - 1) : TENORS[k] = t
       THEN m.rates[t] ELSE q[t]]

\* update_rates on a rate that is no number: SimpleQuote.setValue raises
\* TypeError in the middle of the loop; the exception leaves
\* process_market_update before the evaluation date is set
UpdateRatesFails ==
  /\ pc = "update_rates"
  /\ NonNumeric(msg) \cap TenorSet # {}
  /\ quotes' = QuotesBeforeRaise(quotes, msg)
  /\ applied' = QuotesBeforeRaise(applied, msg)
  /\ pc' = "main_except"
  /\ UNCHANGED <<exit_code, handleVars, outage, tickCount, agg_pass,
                 sideVars, portfolioVars, risk_updates, busVars, position, msg,
                 shutdown_requested,
                 message_count, iterVars, endVars, curve_built,
                 evaluation_date, calcVars, oracleVars, storeVars, now,
                 histVars>>

\* time.time(): the clock has moved on since the last read, or has not
ReadClock ==
  \/ now' = now
  \/ /\ now < StartMs + MaxClockSteps * ClockStepMs
     /\ now' = now + ClockStepMs

\* WriteYieldCurve returning early, with nothing written, on a tick that
\* sets no quote
WriteYieldCurveSkipsEmpty ==
  /\ pc = "write_yield_curve"
  /\ outage = 0
  /\ ReadClock
  /\ yc_latest' =
       IF DOMAIN msg.rates \cap TenorSet = {} THEN yc_latest
       ELSE HSet(yc_latest,
                 HSet(RateFields(msg.rates),
                      [f \in {"timestamp"} |-> Str(msg.timestamp)]))
  /\ yc_history' =
       ZRemRangeByScore(ZAdd(yc_history, msg.rates, msg.timestamp), now' - HourMs)
  /\ curve_written' = TRUE
  /\ idx' = 1
  /\ processed' = 0
  /\ pc' = "loop"
  /\ UNCHANGED <<extVars, busVars, position, msg, shutdown_requested, message_count,
                 endVars, curveVars, calcVars, oracleVars, trade_risk,
                 aggregates, crashes, entry_quotes, risk_calls, risk_written,
                 store_failed, stop_cause, sig_during, snapshot>>

\* RedisWriter.write_yield_curve: the pipeline executes
WriteYieldCurve ==
  /\ pc = "write_yield_curve"
  /\ outage = 0
  /\ ReadClock
  /\ yc_latest' =
       HSet(yc_latest,
            HSet(RateFields(msg.rates),
                 [f \in {"timestamp"} |-> Str(msg.timestamp)]))
  /\ yc_history' =
       ZRemRangeByScore(ZAdd(yc_history, msg.rates, msg.timestamp), now' - HourMs)
  /\ curve_written' = TRUE
  /\ idx' = 1
  /\ processed' = 0
  /\ pc' = "loop"
  /\ UNCHANGED <<extVars, busVars, position, msg, shutdown_requested, message_count,
                 endVars, curveVars, calcVars, oracleVars, trade_risk,
                 aggregates, crashes, entry_quotes, risk_calls, risk_written,
                 store_failed, stop_cause, sig_during, snapshot>>

\* RedisWriter.write_yield_curve raises (the store is unreachable): the
\* exception leaves process_market_update
WriteYieldCurveFails ==
  /\ pc = "write_yield_curve"
  /\ store_failed' = TRUE
  /\ pc' = "main_except"
  /\ UNCHANGED <<extVars, busVars, position, msg, shutdown_requested, message_count,
                 iterVars, endVars, curveVars, calcVars, oracleVars, storeVars,
                 now, crashes, entry_quotes, risk_calls, curve_written,
                 risk_written, stop_cause, sig_during, snapshot>>

\* the store stops answering: its next n commands fail, then it answers
\* again (n = 1: a second attempt of the failed command would succeed)
StoreOutage(n) ==
  /\ outage = 0
  /\ pc \notin {"stopped", "exited"}
  /\ outage' = n
  /\ UNCHANGED <<sideVars, portfolioVars, risk_updates, applied,
                 busVars, mainVars, curveVars, calcVars, oracleVars,
                 storeVars, now, histVars, exit_code, handleVars, tickCount,
                 agg_pass>>

\* write_yield_curve during an outage: pipe.execute() raises, nothing in
\* the method catches it or tries again, the exception leaves
\* process_market_update
WriteYieldCurveOutage ==
  /\ pc = "write_yield_curve"
  /\ outage > 0
  /\ outage' = outage - 1
  /\ store_failed' = TRUE
  /\ pc' = "main_except"
  /\ UNCHANGED <<sideVars, portfolioVars, risk_updates, applied,
                 busVars, position, msg, shutdown_requested, message_count,
                 iterVars, endVars, curveVars, calcVars, oracleVars, storeVars,
                 now, crashes, entry_quotes, risk_calls, curve_written,
                 risk_written, stop_cause, sig_during, snapshot, exit_code,
                 handleVars, tickCount, agg_pass>>

\* for instrument in portfolio: the next instrument enters calculate; P is
\* the pricing call of this calculate that raises (0: none); the channel
\* keeps nothing, the last notification has gone out by now
LoopNext(P) ==
  /\ pc = "loop"
  /\ idx <= Len(portfolio)
  /\ raise_at' = P
  /\ entry_quotes' = quotes
  /\ risk_updates' = NoMsg
  /\ pc' = "price_base"
  /\ UNCHANGED <<exit_code, handleVars, outage, tickCount, agg_pass,
                 sideVars, portfolioVars, applied, busVars, position, msg, shutdown_requested, message_count,
                 iterVars, endVars, curveVars, calcVars, failing, storeVars,
                 now, crashes, risk_calls, curve_written, risk_written,
                 store_failed, stop_cause, sig_during, snapshot>>

\* the pricing calls that may raise for the instrument at idx on this tick
RaisePoints ==
  IF idx \in DOMAIN portfolio /\ portfolio[idx] \in failing
    THEN 1..NumPricePoints ELSE {0}

\* the loop is exhausted: return processed; the last notification has gone out
LoopDone ==
  /\ pc = "loop"
  /\ idx > Len(portfolio)
  /\ ticks_returned' = ticks_returned + 1
  /\ risk_updates' = NoMsg
  /\ pc' = "after_process"
  /\ UNCHANGED <<sideVars, portfolioVars, applied,
                 ticks_seen, exit_code, handleVars, outage, agg_pass, busVars, position, msg, shutdown_requested, message_count,
                 iterVars, endVars, curveVars, calcVars, oracleVars, storeVars,
                 now, histVars>>


(***************************************************************************)
(* RiskCalculator.calculate, one step per quote mutation and pricing call. *)
(***************************************************************************)
\* every quote moved by delta from the snapshot
Bumped(orig, delta) == [t \in TenorSet |-> orig[t] + delta]

callerVars == <<busVars, position, msg, shutdown_requested, message_count,
                iterVars, endVars, oracleVars, storeVars, now, histVars,
                extVars>>

\* base_npv = self._price_instrument(instrument)
PriceBase ==
  /\ pc = "price_base"
  /\ IF ~curve_built \/ raise_at = 1
       THEN /\ pc' = "instr_except"
            /\ UNCHANGED base_npv
       ELSE /\ base_npv' = Price(portfolio[idx], quotes, evaluation_date)
            /\ pc' = "dv01_bump_up"
  /\ UNCHANGED <<callerVars, curveVars, original_values, krd_k, original_value,
                 npv_up, npv_down, dv01, krd, exc>>

\* _calculate_dv01: snapshot every quote, then set each to original + bump
DV01BumpUp ==
  /\ pc = "dv01_bump_up"
  /\ original_values' = quotes
  /\ quotes' = Bumped(quotes, bump_size)
  /\ pc' = "dv01_price_up"
  /\ UNCHANGED <<callerVars, curve_built, evaluation_date, krd_k,
                 original_value, base_npv, npv_up, npv_down, dv01, krd, exc>>

\* npv_up = self._price_instrument(instrument)
DV01PriceUp ==
  /\ pc = "dv01_price_up"
  /\ IF raise_at = 2
       THEN /\ exc' = TRUE
            /\ pc' = "dv01_finally"
            /\ UNCHANGED npv_up
       ELSE /\ npv_up' = Price(portfolio[idx], quotes, evaluation_date)
            /\ pc' = "dv01_bump_down"
            /\ UNCHANGED exc
  /\ UNCHANGED <<callerVars, curveVars, original_values, krd_k, original_value,
                 base_npv, npv_down, dv01, krd>>

\* DV01BumpDown lowering the quotes from where the up-bump left them
DV01BumpDownFromBumped ==
  /\ pc = "dv01_bump_down"
  /\ quotes' = Bumped(quotes, 0 - bump_size)
  /\ pc' = "dv01_price_down"
  /\ UNCHANGED <<callerVars, curve_built, evaluation_date, original_values,
                 krd_k, original_value, base_npv, npv_up, npv_down, dv01, krd,
                 exc>>

\* set each quote to original - bump
DV01BumpDown ==
  /\ pc = "dv01_bump_down"
  /\ quotes' = Bumped(original_values, 0 - bump_size)
  /\ pc' = "dv01_price_down"
  /\ UNCHANGED <<callerVars, curve_built, evaluation_date, original_values,
                 krd_k, original_value, base_npv, npv_up, npv_down, dv01, krd,
                 exc>>

\* npv_down = self._price_instrument(instrument); dv01 = (npv_down - npv_up) / 2
DV01PriceDown ==
  /\ pc = "dv01_price_down"
  /\ IF raise_at = 3
       THEN /\ exc' = TRUE
            /\ UNCHANGED <<npv_down, dv01>>
       ELSE /\ npv_down' = Price(portfolio[idx], quotes, evaluation_date)
            /\ dv01' = (npv_down' - npv_up) \div 2
            /\ UNCHANGED exc
  /\ pc' = "dv01_finally"
  /\ UNCHANGED <<callerVars, curveVars, original_values, krd_k, original_value,
                 base_npv, npv_up, krd>>

\* DV01Finally with the restore after the try instead of in a finally: an
\* exception skips it
DV01FinallyRestoreSkippedOnError ==
  /\ pc = "dv01_finally"
  /\ quotes' = IF exc THEN quotes ELSE original_values
  /\ IF exc
       THEN /\ pc' = "instr_except"
            /\ UNCHANGED <<krd_k, krd>>
       ELSE /\ krd_k' = 1
            /\ krd' = EmptyHash
            /\ pc' = "krd_next"
  /\ exc' = FALSE
  /\ UNCHANGED <<callerVars, curve_built, evaluation_date, original_values,
                 original_value, base_npv, npv_up, npv_down, dv01>>

\* finally: every quote is set back to its snapshot value; a pending
\* exception then leaves calculate, otherwise _calculate_krd starts
DV01Finally ==
  /\ pc = "dv01_finally"
  /\ quotes' = original_values
  /\ IF exc
       THEN /\ pc' = "instr_except"
            /\ UNCHANGED <<krd_k, krd>>
       ELSE /\ krd_k' = 1
            /\ krd' = EmptyHash
            /\ pc' = "krd_next"
  /\ exc' = FALSE
  /\ UNCHANGED <<callerVars, curve_built, evaluation_date, original_values,
                 original_value, base_npv, npv_up, npv_down, dv01>>

\* for tenor in KRD_TENORS: snapshot its quote and set it to original + bump;
\* after the last tenor calculate returns the metrics
KrdNext ==
  /\ pc = "krd_next"
  /\ IF krd_k > Len(KRD_TENORS)
       THEN /\ pc' = "write_risk"
            /\ UNCHANGED <<quotes, original_value>>
       ELSE /\ original_value' = quotes[KRD_TENORS[krd_k]]
            /\ quotes' =
                 [quotes EXCEPT ![KRD_TENORS[krd_k]] = @ + bump_size]
            /\ pc' = "krd_price_up"
  /\ UNCHANGED <<callerVars, curve_built, evaluation_date, original_values,
                 krd_k, base_npv, npv_up, npv_down, dv01, krd, exc>>

\* npv_up = self._price_instrument(instrument)
KrdPriceUp ==
  /\ pc = "krd_price_up"
  /\ IF raise_at = KrdPointUp(krd_k)
       THEN /\ exc' = TRUE
            /\ pc' = "krd_finally"
            /\ UNCHANGED npv_up
       ELSE /\ npv_up' = Price(portfolio[idx], quotes, evaluation_date)
            /\ pc' = "krd_bump_down"
            /\ UNCHANGED exc
  /\ UNCHANGED <<callerVars, curveVars, original_values, krd_k, original_value,
                 base_npv, npv_down, dv01, krd>>

\* KrdBumpDown lowering the tenor's quote from where the up-bump left it
KrdBumpDownFromBumped ==
  /\ pc = "krd_bump_down"
  /\ quotes' = [quotes EXCEPT ![KRD_TENORS[krd_k]] = @ - bump_size]
  /\ pc' = "krd_price_down"
  /\ UNCHANGED <<callerVars, curve_built, evaluation_date, original_values,
                 krd_k, original_value, base_npv, npv_up, npv_down, dv01, krd,
                 exc>>

\* quote.setValue(original_value - self.bump_size)
KrdBumpDown ==
  /\ pc = "krd_bump_down"
  /\ quotes' = [quotes EXCEPT ![KRD_TENORS[krd_k]] = original_value - bump_size]
  /\ pc' = "krd_price_down"
  /\ UNCHANGED <<callerVars, curve_built, evaluation_date, original_values,
                 krd_k, original_value, base_npv, npv_up, npv_down, dv01, krd,
                 exc>>

\* npv_down = self._price_instrument(instrument); krd[tenor] = (npv_down - npv_up) / 2
KrdPriceDown ==
  /\ pc = "krd_price_down"
  /\ IF raise_at = KrdPointUp(krd_k) + 1
       THEN /\ exc' = TRUE
            /\ UNCHANGED <<npv_down, krd>>
       ELSE /\ npv_down' = Price(portfolio[idx], quotes, evaluation_date)
            /\ krd' =
                 HSet(krd, [t \in {KRD_TENORS[krd_k]} |-> (npv_down' - npv_up) \div 2])
            /\ UNCHANGED exc
  /\ pc' = "krd_finally"
  /\ UNCHANGED <<callerVars, curveVars, original_values, krd_k, original_value,
                 base_npv, npv_up, dv01>>

\* finally: the tenor's quote is set back; a pending exception then leaves
\* calculate, otherwise the next tenor follows
KrdFinally ==
  /\ pc = "krd_finally"
  /\ quotes' = [quotes EXCEPT ![KRD_TENORS[krd_k]] = original_value]
  /\ IF exc
       THEN /\ pc' = "instr_except"
            /\ UNCHANGED krd_k
       ELSE /\ krd_k' = krd_k + 1
            /\ pc' = "krd_next"
  /\ exc' = FALSE
  /\ UNCHANGED <<callerVars, curve_built, evaluation_date, original_values,
                 original_value, base_npv, npv_up, npv_down, dv01, krd>>


(***************************************************************************)
(* RedisWriter.write_risk and the rest of the instrument loop.             *)
(***************************************************************************)
\* the hash write_risk builds from the metrics (updated_at, the wall clock
\* at the write, is read by nothing in the worker and is left out)
RiskHash(npv, d, k, ts) ==
  HSet([f \in {"npv", "dv01", "curve_timestamp"} |->
          CASE f = "npv" -> Str(npv) [] f = "dv01" -> Str(d)
            [] f = "curve_timestamp" -> Str(ts)],
       [f \in {"krd_" \o Lower(t) : t \in DOMAIN k} |->
          Str(k[CHOOSE t \in DOMAIN k : "krd_" \o Lower(t) = f])])

\* the locals of calculate are gone once it has returned or raised
CalcLocalsDropped ==
  /\ original_values' = ZeroQuotes
  /\ krd_k' = 0
  /\ original_value' = 0
  /\ base_npv' = 0
  /\ npv_up' = 0
  /\ npv_down' = 0
  /\ dv01' = 0
  /\ krd' = EmptyHash
  /\ exc' = FALSE
  /\ raise_at' = 0

\* WriteRisk with HSET alone in the batch: a key that had no expiry gets
\* none (ttl 0)
WriteRiskHashOnly ==
  /\ pc = "write_risk"
  /\ outage = 0
  /\ risk_calls' = Append(risk_calls, portfolio[idx])
  /\ trade_risk' =
       [trade_risk EXCEPT ![portfolio[idx]] =
          [present |-> TRUE,
           hash |-> HSet(IF @.present THEN @.hash ELSE EmptyHash,
                         RiskHash(base_npv, dv01, krd, msg.timestamp)),
           ttl |-> IF @.present THEN @.ttl ELSE 0]]
  /\ risk_written' = risk_written \cup {portfolio[idx]}
  /\ pc' = "publish_risk"
  /\ UNCHANGED <<extVars, busVars, position, msg, shutdown_requested, message_count,
                 iterVars, endVars, curveVars, calcVars, oracleVars,
                 yc_latest, yc_history,
                 aggregates, now, crashes, entry_quotes, curve_written,
                 store_failed, stop_cause, sig_during, snapshot>>

\* WriteRisk with the notification sent before the pipeline is executed
WriteRiskPublishesFirst ==
  /\ pc = "write_risk"
  /\ outage = 0
  /\ risk_calls' = Append(risk_calls, portfolio[idx])
  /\ risk_updates' =
       [instrument_id |-> portfolio[idx], timestamp |-> msg.timestamp]
  /\ risk_written' = risk_written \cup {portfolio[idx]}
  /\ pc' = "publish_risk"
  /\ UNCHANGED <<exit_code, handleVars, outage, tickCount, agg_pass,
                 sideVars, portfolioVars, applied, busVars, position, msg,
                 shutdown_requested, message_count, iterVars, endVars,
                 curveVars, calcVars, oracleVars, storeVars, now, crashes,
                 entry_quotes, curve_written, store_failed, stop_cause,
                 sig_during, snapshot>>

\* redis_writer.write_risk(metrics, curve_timestamp): the pipeline (HSET and
\* EXPIRE in one transaction) executes
WriteRisk ==
  /\ pc = "write_risk"
  /\ outage = 0
  /\ risk_calls' = Append(risk_calls, portfolio[idx])
  /\ trade_risk' =
       [trade_risk EXCEPT ![portfolio[idx]] =
          [present |-> TRUE,
           hash |-> HSet(IF @.present THEN @.hash ELSE EmptyHash,
                         RiskHash(base_npv, dv01, krd, msg.timestamp)),
           ttl |-> RedisTtl]]
  /\ risk_written' = risk_written \cup {portfolio[idx]}
  /\ pc' = "publish_risk"
  /\ UNCHANGED <<extVars, busVars, position, msg, shutdown_requested, message_count,
                 iterVars, endVars, curveVars, calcVars, oracleVars,
                 yc_latest, yc_history,
                 aggregates, now, crashes, entry_quotes, curve_written,
                 store_failed, stop_cause, sig_during, snapshot>>

\* the rest of write_risk: PUBLISH risk_updates {instrument_id, timestamp};
\* back in the instrument loop, processed += 1
PublishRisk ==
  /\ pc = "publish_risk"
  /\ outage = 0
  /\ risk_updates' =
       [instrument_id |-> portfolio[idx], timestamp |-> msg.timestamp]
  /\ processed' = processed + 1
  /\ idx' = idx + 1
  /\ CalcLocalsDropped
  /\ pc' = "loop"
  /\ UNCHANGED <<exit_code, handleVars, outage, tickCount, agg_pass,
                 sideVars, portfolioVars, applied, busVars, position, msg,
                 shutdown_requested, message_count, endVars, curveVars,
                 failing, storeVars, now, histVars>>

\* write_risk raises (the store is unreachable): caught by the handler of
\* the instrument loop
WriteRiskFails ==
  /\ pc = "write_risk"
  /\ risk_calls' = Append(risk_calls, portfolio[idx])
  /\ store_failed' = TRUE
  /\ pc' = "instr_except"
  /\ UNCHANGED <<extVars, busVars, position, msg, shutdown_requested, message_count,
                 iterVars, endVars, curveVars, calcVars, oracleVars, storeVars,
                 now, crashes, entry_quotes, curve_written, risk_written,
                 stop_cause, sig_during, snapshot>>

\* write_risk during an outage: pipe.execute() raises, nothing in the
\* method catches it or tries again, the handler of the instrument loop
\* gets it
WriteRiskOutage ==
  /\ pc = "write_risk"
  /\ outage > 0
  /\ outage' = outage - 1
  /\ risk_calls' = Append(risk_calls, portfolio[idx])
  /\ store_failed' = TRUE
  /\ pc' = "instr_except"
  /\ UNCHANGED <<sideVars, portfolioVars, risk_updates, applied,
                 busVars, position, msg, shutdown_requested, message_count,
                 iterVars, endVars, curveVars, calcVars, oracleVars, storeVars,
                 now, crashes, entry_quotes, curve_written, risk_written,
                 stop_cause, sig_during, snapshot, exit_code, handleVars,
                 tickCount, agg_pass>>

\* PUBLISH during an outage: it raises after the record was written
PublishRiskOutage ==
  /\ pc = "publish_risk"
  /\ outage > 0
  /\ outage' = outage - 1
  /\ store_failed' = TRUE
  /\ pc' = "instr_except"
  /\ UNCHANGED <<sideVars, portfolioVars, risk_updates, applied,
                 busVars, position, msg, shutdown_requested, message_count,
                 iterVars, endVars, curveVars, calcVars, oracleVars, storeVars,
                 now, crashes, entry_quotes, risk_calls, curve_written,
                 risk_written, stop_cause, sig_during, snapshot, exit_code,
                 handleVars, tickCount, agg_pass>>

\* InstrExcept with break for continue: the first failure ends the loop
InstrExceptBreaks ==
  /\ pc = "instr_except"
  /\ idx' = Len(portfolio) + 1
  /\ CalcLocalsDropped
  /\ pc' = "loop"
  /\ UNCHANGED <<extVars, busVars, position, msg, shutdown_requested, message_count,
                 processed, endVars, curveVars, failing, storeVars, now,
                 histVars>>

\* except Exception: logger.error(...); continue
InstrExcept ==
  /\ pc = "instr_except"
  /\ idx' = idx + 1
  /\ CalcLocalsDropped
  /\ pc' = "loop"
  /\ UNCHANGED <<extVars, busVars, position, msg, shutdown_requested, message_count,
                 processed, endVars, curveVars, failing, storeVars, now,
                 histVars>>

(***************************************************************************)
(* main after process_market_update returned, and its exits.               *)
(***************************************************************************)
\* AfterProcess with the test on the count before the increment
AfterProcessTestsBeforeCount ==
  /\ pc = "after_process"
  /\ message_count' = message_count + 1
  /\ pc' = IF message_count % AggregateEvery = 0 THEN "aggregate" ELSE "resume"
  /\ UNCHANGED <<extVars, busVars, position, msg, shutdown_requested, iterVars, endVars,
                 curveVars, calcVars, oracleVars, storeVars, now, histVars>>

\* message_count += 1; if message_count % 5 == 0: aggregate.  The pass
\* itself starts at pc = "aggregate", which takes AggregateEvery handled
\* messages of one process to reach.
AfterProcess ==
  /\ pc = "after_process"
  /\ message_count' = message_count + 1
  /\ pc' = IF message_count' % AggregateEvery = 0 THEN "aggregate" ELSE "resume"
  /\ UNCHANGED <<extVars, busVars, position, msg, shutdown_requested, iterVars, endVars,
                 curveVars, calcVars, oracleVars, storeVars, now, histVars>>

\* aggregate_portfolio(redis_writer) and write_portfolio_aggregates: the
\* records are scanned and summed and the totals are written
Aggregate ==
  /\ pc = "aggregate"
  /\ outage = 0
  /\ aggregates' =
       HSet(aggregates, AggregatesHash(AggregatePortfolio(GetAllTradeRisks(trade_risk))))
  /\ agg_pass' = "written"
  /\ pc' = "resume"
  /\ UNCHANGED <<sideVars, portfolioVars, risk_updates, applied,
                 busVars, position, msg, shutdown_requested, message_count,
                 iterVars, endVars, curveVars, calcVars, oracleVars,
                 trade_risk, yc_latest, yc_history, now, histVars, exit_code,
                 handleVars, outage, tickCount>>

\* the scan or the write of the pass raises (the store is unreachable)
AggregateFails ==
  /\ pc = "aggregate"
  /\ agg_pass' = "failed"
  /\ store_failed' = TRUE
  /\ pc' = "main_except"
  /\ UNCHANGED <<sideVars, portfolioVars, risk_updates, applied,
                 busVars, position, msg, shutdown_requested, message_count,
                 iterVars, endVars, curveVars, calcVars, oracleVars, storeVars,
                 now, crashes, entry_quotes, risk_calls, curve_written,
                 risk_written, stop_cause, sig_during, snapshot, exit_code,
                 handleVars, outage, tickCount>>

(***************************************************************************)
(* get_all_trade_risks step by step: every SCAN and every batch of HGETALL *)
(* is a command of its own, and the keys live on in the store between      *)
(* them.  The cursor is the number of key slots visited, 0 at the start    *)
(* and when all are visited; the slots are the instruments in portfolio    *)
(* order, and one SCAN visits at least one more slot (count = 100 is a     *)
(* hint to the server, not a size of the answer).                          *)
(***************************************************************************)
scanFrame == <<portfolioVars, risk_updates, applied, busVars, position, msg,
               shutdown_requested, message_count, iterVars, endVars,
               curveVars, calcVars, oracleVars, yc_latest, yc_history, now,
               histVars, exit_code, handleVars, outage, tickCount, feed,
               master>>

\* cursor, keys = self.client.scan(cursor, match="trade:*:risk", count=100)
ScanKeys ==
  /\ pc \in {"aggregate", "scan"}
  /\ \E j \in (scan.cursor + 1)..Len(portfolio) :
       scan' = [scan EXCEPT
                  !.cursor = IF j = Len(portfolio) THEN 0 ELSE j,
                  !.keys = {TradeRiskKey(portfolio[k]) :
                              k \in {n \in (scan.cursor + 1)..j :
                                       trade_risk[portfolio[n]].present}}]
  /\ pc' = "hgetall"
  /\ UNCHANGED <<scanFrame, trade_risk, aggregates, agg_pass>>

\* HGETALL key: the fields of the hash, {} when the key does not exist
HGetAll(store, key) ==
  IF store[key[2]].present THEN store[key[2]].hash ELSE EmptyHash

\* the pipeline of HGETALLs executes and every answer is stored under the
\* id cut out of its key; if cursor == 0: break
ReadHashes ==
  /\ pc = "hgetall"
  /\ scan' = [scan EXCEPT
               !.result =
                 [id \in DOMAIN scan.result
                         \cup {KeyInstrumentId(key) : key \in scan.keys} |->
                    IF \E key \in scan.keys : KeyInstrumentId(key) = id
                      THEN HGetAll(trade_risk,
                                   CHOOSE key \in scan.keys :
                                     KeyInstrumentId(key) = id)
                      ELSE scan.result[id]]]
  /\ pc' = IF scan.cursor = 0 THEN "scan_return" ELSE "scan"
  /\ UNCHANGED <<scanFrame, trade_risk, aggregates, agg_pass>>

\* return result; aggregate_portfolio sums it and write_portfolio_aggregates
\* writes the totals
SumScanned ==
  /\ pc = "scan_return"
  /\ aggregates' =
       HSet(aggregates, AggregatesHash(AggregatePortfolio(scan.result)))
  /\ agg_pass' = "written"
  /\ scan' = NoScan
  /\ pc' = "resume"
  /\ UNCHANGED <<scanFrame, trade_risk>>

\* the time to live of the record of instrument i runs out: the store
\* deletes the key
Expire(i) ==
  /\ trade_risk[i].present
  /\ trade_risk' = [trade_risk EXCEPT ![i] = NoRecord]
  /\ UNCHANGED <<scanFrame, scan, mainVars, aggregates, agg_pass>>

\* except Exception: logger.exception(...); continue
MainExcept ==
  /\ pc = "main_except"
  /\ pc' = "resume"
  /\ UNCHANGED <<extVars, busVars, position, msg, shutdown_requested, message_count,
                 iterVars, endVars, curveVars, calcVars, oracleVars, storeVars,
                 now, histVars>>

\* finally: consumer.close()
CloseConsumer ==
  /\ pc = "finally"
  /\ consumer_closed' = TRUE
  /\ pc' = "close_redis"
  /\ UNCHANGED <<extVars, busVars, position, msg, shutdown_requested, message_count,
                 iterVars, redis_closed, curveVars, calcVars, oracleVars,
                 storeVars, now, histVars>>

\* finally: redis_writer.close(); main returns and the interpreter exits
\* with status 0
CloseRedis ==
  /\ pc = "close_redis"
  /\ redis_closed' = TRUE
  /\ exit_code' = <<0>>
  /\ pc' = "stopped"
  /\ UNCHANGED <<sideVars, portfolioVars, risk_updates, applied,
                 handleVars, outage, tickCount, agg_pass, busVars, position, msg, shutdown_requested, message_count,
                 iterVars, consumer_closed, curveVars, calcVars, oracleVars,
                 storeVars, now, histVars>>

\* signal_handler, on SIGINT or SIGTERM, at any point of the running worker
SignalHandler ==
  /\ pc \notin {"stopped", "exited"}
  /\ ~shutdown_requested
  /\ shutdown_requested' = TRUE
  /\ sig_during' = IF InTick THEN position - 1 ELSE 0
  /\ UNCHANGED <<extVars, busVars, pc, position, msg, message_count, iterVars, endVars,
                 curveVars, calcVars, oracleVars, storeVars, now, crashes,
                 tickHist, stop_cause, snapshot>>

(***************************************************************************)
(* main before the loop: the portfolio is loaded, the pricing objects are  *)
(* built, the store is connected, the bus consumer is opened.              *)
(***************************************************************************)
startFrame == <<busVars, position, msg, shutdown_requested, message_count,
                iterVars, endVars, curveVars, calcVars, oracleVars, storeVars,
                now, crashes, tickHist, sig_during, snapshot, outage,
                tickCount, agg_pass, risk_updates, applied, sideVars>>
initFrame == <<startFrame, loadVars>>

\* sys.exit(1): the interpreter ends with status 1
Exit1(cause) ==
  /\ exit_code' = <<1>>
  /\ stop_cause' = cause
  /\ pc' = "exited"
  /\ UNCHANGED <<initFrame, handleVars, main_portfolio>>

\* load_portfolio returns a non-empty list; the curve builder and the
\* calculator are constructed
LoadPortfolio ==
  /\ pc = "load_portfolio"
  /\ instruments' = LoadedPortfolio
  /\ main_portfolio' = <<LoadedPortfolio>>
  /\ pc' = "connect_store"
  /\ UNCHANGED <<startFrame, listing, page, handleVars, exit_code,
                 stop_cause>>

\* LoadPortfolioEmpty without the emptiness check: startup goes on
LoadPortfolioEmptyGoesOn ==
  /\ pc = "load_portfolio"
  /\ stop_cause' = "empty_portfolio"
  /\ pc' = "connect_store"
  /\ UNCHANGED <<initFrame, handleVars, exit_code, main_portfolio>>

\* load_portfolio returns []: if not portfolio: sys.exit(1).  SystemExit is
\* no Exception, so the handler of the try does not see it.
LoadPortfolioEmpty ==
  /\ pc = "load_portfolio"
  /\ Exit1("empty_portfolio")

\* LoadPortfolioFails with the error swallowed inside load_portfolio: the
\* items read so far are returned
LoadPortfolioFailsReturnsPartial ==
  /\ pc = "load_portfolio"
  /\ stop_cause' = "init_error"
  /\ pc' = "load_return"
  /\ UNCHANGED <<initFrame, handleVars, exit_code, main_portfolio>>

\* load_portfolio raises (httpx.HTTPError from the request of the page at
\* hand or from raise_for_status): except Exception: sys.exit(1)
LoadPortfolioFails ==
  /\ pc = "load_portfolio"
  /\ Exit1("init_error")

\* RedisWriter(...): the client is created and answers the ping
ConnectStore ==
  /\ pc = "connect_store"
  /\ redis_open' = TRUE
  /\ pc' = "open_consumer"
  /\ UNCHANGED <<initFrame, consumer_open, exit_code, stop_cause,
                 main_portfolio>>

\* RedisWriter(...) raises (the ping fails): except Exception: sys.exit(1)
ConnectStoreFails ==
  /\ pc = "connect_store"
  /\ Exit1("init_error")

\* MarketDataConsumer(...): the consumer is created and subscribed
OpenConsumer ==
  /\ pc = "open_consumer"
  /\ consumer_open' = TRUE
  /\ pc' = "poll"
  /\ UNCHANGED <<initFrame, redis_open, exit_code, stop_cause,
                 main_portfolio>>

\* MarketDataConsumer(...) raises: except Exception: sys.exit(1)
OpenConsumerFails ==
  /\ pc = "open_consumer"
  /\ Exit1("init_error")

(***************************************************************************)
(* load_portfolio page by page, and main's test of what it returned.       *)
(***************************************************************************)
\* FetchPage ending the loop on a page without a well-formed item
FetchPageStopsOnBadPage ==
  /\ pc = "load_portfolio"
  /\ page_size <= ServerPageCap
  /\ LET data == ListInstruments(listing, page, page_size)
     IN  IF ParseItems(data.items) = <<>>
           THEN /\ pc' = "load_return"
                /\ UNCHANGED <<page, instruments>>
           ELSE /\ instruments' = instruments \o ParseItems(data.items)
                /\ IF page >= data.pages
                     THEN /\ pc' = "load_return"
                          /\ UNCHANGED page
                     ELSE /\ page' = page + 1
                          /\ pc' = "load_portfolio"
  /\ UNCHANGED <<startFrame, listing, main_portfolio, handleVars, exit_code,
                 stop_cause>>

\* one pass of the while loop whose request is answered with 2xx: an empty
\* page ends the loop, otherwise its items are parsed and the loop ends on
\* the last page reported
FetchPage ==
  /\ pc = "load_portfolio"
  /\ page_size <= ServerPageCap
  /\ LET data == ListInstruments(listing, page, page_size)
     IN  IF data.items = <<>>
           THEN /\ pc' = "load_return"
                /\ UNCHANGED <<page, instruments>>
           ELSE /\ instruments' = instruments \o ParseItems(data.items)
                /\ IF page >= data.pages
                     THEN /\ pc' = "load_return"
                          /\ UNCHANGED page
                     ELSE /\ page' = page + 1
                          /\ pc' = "load_portfolio"
  /\ UNCHANGED <<startFrame, listing, main_portfolio, handleVars, exit_code,
                 stop_cause>>

\* portfolio = load_portfolio(...): the list is returned to main
LoadReturns ==
  /\ pc = "load_return"
  /\ main_portfolio' = <<instruments>>
  /\ pc' = "check_portfolio"
  /\ UNCHANGED <<initFrame, handleVars, exit_code, stop_cause>>

\* if not portfolio: sys.exit(1)
CheckPortfolioEmpty ==
  /\ pc = "check_portfolio"
  /\ main_portfolio[1] = <<>>
  /\ Exit1("empty_portfolio")

\* the portfolio is not empty: the curve builder and the calculator are
\* constructed
CheckPortfolio ==
  /\ pc = "check_portfolio"
  /\ main_portfolio[1] # <<>>
  /\ pc' = "connect_store"
  /\ UNCHANGED <<initFrame, handleVars, exit_code, stop_cause,
                 main_portfolio>>

(***************************************************************************)
(* The process dies and is started again: memory is lost, the store and    *)
(* the committed offset stay, consumption restarts at the committed        *)
(* offset.  The steps of _calculate_risk touch nothing outside memory, so   *)
(* a death in the middle of them leaves what a death at the write or at    *)
(* the except clause that follows them leaves: it is taken there.          *)
(***************************************************************************)
InCalculate ==
  pc \in {"price_base", "dv01_bump_up", "dv01_price_up", "dv01_bump_down",
          "dv01_price_down", "dv01_finally", "krd_next", "krd_price_up",
          "krd_bump_down", "krd_price_down", "krd_finally"}

\* the tick just handled is published in full and not yet committed
PublishedUncommitted ==
  pc = "resume" /\ curve_written /\ risk_written = Instruments

CrashRestart ==
  /\ pc \notin {"stopped", "exited"}
  /\ ~InCalculate
  /\ crashes < MaxCrashes
  /\ crashes' = crashes + 1
  /\ snapshot' =
       IF PublishedUncommitted
         THEN [taken |-> TRUE, offset |-> position - 1,
               trade_risk |-> trade_risk, yc_latest |-> yc_latest,
               yc_history |-> yc_history]
         ELSE NoSnapshot
  /\ position' = committed + 1
  /\ Restarted
  /\ UNCHANGED <<listing, risk_updates, applied, outage, busVars, storeVars,
                 now, sideVars>>

Next ==
  \/ PollMessage
  \/ PollNone
  \/ ContinuePoll
  \/ PollError
  \/ DecodeYield
  \/ DecodeJsonError
  \/ DecodeUnicodeError
  \/ ResumeCommit
  \/ ShutdownBreak
  \/ \E F \in SUBSET Instruments : BeginProcess(F)
  \/ UpdateRates
  \/ WriteYieldCurve
  \/ WriteYieldCurveFails
  \/ \E P \in RaisePoints : LoopNext(P)
  \/ LoopDone
  \/ PriceBase
  \/ DV01BumpUp
  \/ DV01PriceUp
  \/ DV01BumpDown
  \/ DV01PriceDown
  \/ DV01Finally
  \/ KrdNext
  \/ KrdPriceUp
  \/ KrdBumpDown
  \/ KrdPriceDown
  \/ KrdFinally
  \/ WriteRisk
  \/ PublishRisk
  \/ WriteRiskFails
  \/ InstrExcept
  \/ AfterProcess
  \/ MainExcept
  \/ CloseConsumer
  \/ CloseRedis
  \/ SignalHandler
  \/ CrashRestart

Spec == Init /\ [][Next]_vars


(***************************************************************************)
(* The worker as scheduled: one thread that always takes its next step.    *)
(* Signals arrive when they arrive; the process does not die.              *)
(***************************************************************************)
WorkerStep ==
  \/ PollMessage
  \/ PollNone
  \/ ContinuePoll
  \/ PollError
  \/ DecodeYield
  \/ DecodeJsonError
  \/ DecodeUnicodeError
  \/ ResumeCommit
  \/ ShutdownBreak
  \/ BeginProcess({})
  \/ UpdateRates
  \/ WriteYieldCurve
  \/ WriteYieldCurveFails
  \/ LoopNext(0)
  \/ LoopDone
  \/ PriceBase
  \/ DV01BumpUp
  \/ DV01PriceUp
  \/ DV01BumpDown
  \/ DV01PriceDown
  \/ DV01Finally
  \/ KrdNext
  \/ KrdPriceUp
  \/ KrdBumpDown
  \/ KrdPriceDown
  \/ KrdFinally
  \/ WriteRisk
  \/ PublishRisk
  \/ WriteRiskFails
  \/ InstrExcept
  \/ AfterProcess
  \/ MainExcept
  \/ CloseConsumer
  \/ CloseRedis

FairNext == WorkerStep \/ SignalHandler

FairSpec == Init /\ [][FairNext]_vars /\ WF_vars(WorkerStep)

(***************************************************************************)
(* Runs in which nothing fails but the process: no pricing error, no       *)
(* store error, no bus error, no signal.                                   *)
(***************************************************************************)
ReplayNext ==
  \/ PollMessage
  \/ PollNone
  \/ ContinuePoll
  \/ DecodeYield
  \/ DecodeJsonError
  \/ DecodeUnicodeError
  \/ ResumeCommit
  \/ BeginProcess({})
  \/ UpdateRates
  \/ WriteYieldCurve
  \/ LoopNext(0)
  \/ LoopDone
  \/ PriceBase
  \/ DV01BumpUp
  \/ DV01PriceUp
  \/ DV01BumpDown
  \/ DV01PriceDown
  \/ DV01Finally
  \/ KrdNext
  \/ KrdPriceUp
  \/ KrdBumpDown
  \/ KrdPriceDown
  \/ KrdFinally
  \/ WriteRisk
  \/ PublishRisk
  \/ AfterProcess
  \/ CloseConsumer
  \/ CloseRedis
  \/ CrashRestart

ReplaySpec == Init /\ [][ReplayNext]_vars

(***************************************************************************)
(* The worker from the entry of main to its exit.                          *)
(***************************************************************************)
StartupNext ==
  \/ LoadPortfolio
  \/ LoadPortfolioEmpty
  \/ LoadPortfolioFails
  \/ ConnectStore
  \/ ConnectStoreFails
  \/ OpenConsumer
  \/ OpenConsumerFails
  \/ WorkerStep
  \/ SignalHandler

StartupSpec == StartInit /\ [][StartupNext]_vars

(***************************************************************************)
(* The start of the worker against any listing of up to MaxItems items,    *)
(* page by page, up to the first poll.                                     *)
(***************************************************************************)
LoaderInit == StartState /\ listing \in Listings

LoaderNext ==
  \/ FetchPage
  \/ LoadPortfolioFails
  \/ LoadReturns
  \/ CheckPortfolioEmpty
  \/ CheckPortfolio
  \/ ConnectStore
  \/ ConnectStoreFails
  \/ OpenConsumer
  \/ OpenConsumerFails

LoaderSpec == LoaderInit /\ [][LoaderNext]_vars

(***************************************************************************)
(* Runs in which the store has outages of a few commands and nothing else  *)
(* fails.                                                                  *)
(***************************************************************************)
OutageNext ==
  \/ PollMessageFrom({TickFull, TickPartial}, MaxMsgs)
  \/ PollNone
  \/ ContinuePoll
  \/ DecodeYield
  \/ ResumeCommit
  \/ BeginProcess({})
  \/ UpdateRates
  \/ \E n \in 1..MaxOutage : StoreOutage(n)
  \/ WriteYieldCurve
  \/ WriteYieldCurveOutage
  \/ LoopNext(0)
  \/ LoopDone
  \/ PriceBase
  \/ DV01BumpUp
  \/ DV01PriceUp
  \/ DV01BumpDown
  \/ DV01PriceDown
  \/ DV01Finally
  \/ KrdNext
  \/ KrdPriceUp
  \/ KrdBumpDown
  \/ KrdPriceDown
  \/ KrdFinally
  \/ WriteRisk
  \/ PublishRisk
  \/ WriteRiskOutage
  \/ PublishRiskOutage
  \/ InstrExcept
  \/ AfterProcess
  \/ MainExcept

OutageSpec == Init /\ [][OutageNext]_vars

(***************************************************************************)
(* Runs long enough for the aggregation pass: full ticks and bodies that   *)
(* are no JSON, with store writes that fail.                               *)
(***************************************************************************)
AggNext ==
  \/ PollMessageFrom({TickFull, BadJson}, MaxAggMsgs)
  \/ PollNone
  \/ ContinuePoll
  \/ DecodeYield
  \/ DecodeJsonError
  \/ ResumeCommit
  \/ BeginProcess({})
  \/ UpdateRates
  \/ WriteYieldCurve
  \/ WriteYieldCurveFails
  \/ LoopNext(0)
  \/ LoopDone
  \/ PriceBase
  \/ DV01BumpUp
  \/ DV01PriceUp
  \/ DV01BumpDown
  \/ DV01PriceDown
  \/ DV01Finally
  \/ KrdNext
  \/ KrdPriceUp
  \/ KrdBumpDown
  \/ KrdPriceDown
  \/ KrdFinally
  \/ WriteRisk
  \/ PublishRisk
  \/ WriteRiskFails
  \/ InstrExcept
  \/ AfterProcess
  \/ Aggregate
  \/ AggregateFails
  \/ MainExcept

AggSpec == Init /\ [][AggNext]_vars

(***************************************************************************)
(* The aggregation pass as a function of the records it finds: the worker  *)
(* has counted its fifth tick, and the store holds any of these records    *)
(* under the keys of the portfolio.                                        *)
(***************************************************************************)
KrdA == [t \in KrdSet |-> CASE t = "2Y" -> 10 [] t = "5Y" -> 20 [] t = "10Y" -> 30 [] t = "30Y" -> 40]
KrdB == [t \in KrdSet |-> CASE t = "2Y" -> 0 - 4 [] t = "5Y" -> 7 [] t = "10Y" -> 0 - 9 [] t = "30Y" -> 11]
RecordA == RiskHash(100, 250, KrdA, StartMs)
RecordB == RiskHash(0 - 40, 0 - 175, KrdB, StartMs)
\* records with one field that float() does not parse
RecordBadNpv == HSet(RecordB, [f \in {"npv"} |-> Text("abc")])
RecordBadDv01 == HSet(RecordB, [f \in {"dv01"} |-> Text("")])
RecordBadKrd == HSet(RecordB, [f \in {"krd_5y"} |-> Text("n/a")])
StoredRecords ==
  {NoRecord} \cup
  {[present |-> TRUE, hash |-> h, ttl |-> RedisTtl] :
     h \in {RecordA, RecordB, RecordBadNpv, RecordBadDv01, RecordBadKrd}}

AggFnInit ==
  /\ committed = AggregateEvery - 1
  /\ pending = <<TickFull>>
  /\ position = AggregateEvery + 1
  /\ pc = "aggregate"
  /\ msg = TickFull
  /\ shutdown_requested = FALSE
  /\ message_count = AggregateEvery
  /\ idx = Len(portfolio) + 1
  /\ processed = 0
  /\ consumer_closed = FALSE
  /\ redis_closed = FALSE
  /\ quotes = RatesFull
  /\ curve_built = TRUE
  /\ evaluation_date = TickFull.curve_date
  /\ original_values = ZeroQuotes
  /\ krd_k = 0
  /\ original_value = 0
  /\ base_npv = 0
  /\ npv_up = 0
  /\ npv_down = 0
  /\ dv01 = 0
  /\ krd = EmptyHash
  /\ exc = FALSE
  /\ failing = {}
  /\ raise_at = 0
  /\ entry_quotes = ZeroQuotes
  /\ risk_calls = <<>>
  /\ curve_written = TRUE
  /\ risk_written = {}
  /\ store_failed = FALSE
  /\ stop_cause = "none"
  /\ sig_during = 0
  /\ exit_code = <<>>
  /\ consumer_open = TRUE
  /\ redis_open = TRUE
  /\ ticks_seen = AggregateEvery
  /\ ticks_returned = AggregateEvery
  /\ agg_pass = "none"
  /\ trade_risk \in [Instruments -> StoredRecords]
  /\ yc_latest = HSet(RateFields(RatesFull), [f \in {"timestamp"} |-> Str(StartMs)])
  /\ yc_history = {[member |-> RatesFull, score |-> StartMs]}
  /\ aggregates = EmptyHash
  /\ now = StartMs
  /\ crashes = 0
  /\ snapshot = NoSnapshot
  /\ outage = 0
  /\ listing = PortfolioListing
  /\ page = 1
  /\ instruments = LoadedPortfolio
  /\ main_portfolio = <<LoadedPortfolio>>
  /\ risk_updates = NoMsg
  /\ applied = RatesFull
  /\ SideIdle

AggFnNext ==
  \/ Aggregate
  \/ AggregateFails
  \/ MainExcept
  \/ ResumeCommit

AggFnSpec == AggFnInit /\ [][AggFnNext]_vars

(***************************************************************************)
(* The market data feed: main of market_data_feed with its generator.      *)
(* feed.pc is where main stands, feed.g where the generator stands, feed.i *)
(* the row the reader hands out next.  yielded and sent hold the messages  *)
(* yielded and produced since the file was last opened.                    *)
(***************************************************************************)
workerVars == <<busVars, mainVars, curveVars, calcVars, oracleVars, storeVars,
                now, histVars, extCore>>

FeedStarts ==
  {[pc |-> "check_file", g |-> "unstarted", file |-> f, exists |-> TRUE,
    loop_forever |-> l, i |-> 0, message |-> NoMsg, yielded |-> <<>>,
    sent |-> <<>>, shutdown_requested |-> FALSE, error |-> "none",
    closed |-> FALSE, exit_code |-> <<>>] :
     f \in DataFiles, l \in BOOLEAN}
  \cup
  {[pc |-> "check_file", g |-> "unstarted", file |-> <<>>, exists |-> FALSE,
    loop_forever |-> l, i |-> 0, message |-> NoMsg, yielded |-> <<>>,
    sent |-> <<>>, shutdown_requested |-> FALSE, error |-> "none",
    closed |-> FALSE, exit_code |-> <<>>] :
     l \in BOOLEAN}

\* signal_handler of the feed: shutdown_requested = True
FeedSignalHandler ==
  /\ feed.pc # "exited"
  /\ ~feed.shutdown_requested
  /\ feed' = [feed EXCEPT !.shutdown_requested = TRUE]
  /\ UNCHANGED <<workerVars, scan, master>>

\* the data file is removed while the feed runs
RemoveFile ==
  /\ feed.pc \notin {"check_file", "exited"}
  /\ feed.exists
  /\ feed' = [feed EXCEPT !.exists = FALSE]
  /\ UNCHANGED <<workerVars, scan, master>>

\* if not data_file.exists(): sys.exit(1); otherwise the producer is
\* created and the for loop asks the generator for its first message
FeedCheckFile ==
  /\ feed.pc = "check_file"
  /\ feed' = IF feed.exists
               THEN [feed EXCEPT !.pc = "next"]
               ELSE [feed EXCEPT !.pc = "exited", !.exit_code = <<1>>]
  /\ UNCHANGED <<workerVars, scan, master>>

\* the generator's body starts at the first next(): if not path.exists():
\* raise FileNotFoundError, which main answers with sys.exit(1); otherwise
\* the file is opened
GenStart ==
  /\ feed.pc = "next"
  /\ feed.g = "unstarted"
  /\ feed' = IF feed.exists
               THEN [feed EXCEPT !.g = "reading", !.i = 1]
               ELSE [feed EXCEPT !.g = "raised",
                                 !.error = "FileNotFoundError",
                                 !.pc = "finally"]
  /\ UNCHANGED <<workerVars, scan, master>>

\* for row in reader: a row whose timestamp raises KeyError or ValueError
\* is skipped, one whose timestamp parses is formatted and yielded, and
\* any other exception leaves the generator and reaches main's except
\* Exception: sys.exit(1)
GenRow ==
  /\ feed.pc = "next"
  /\ feed.g = "reading"
  /\ feed.i <= Len(feed.file)
  /\ LET row == feed.file[feed.i]
         raised == RowTimestampRaises(row)
     IN  feed' =
           CASE raised \in {"KeyError", "ValueError"} ->
                  [feed EXCEPT !.i = @ + 1]
             [] raised = "none" ->
                  LET m == FormatKafkaMessage(row, ParseTimestamp(row.timestamp))
                  IN  [feed EXCEPT !.i = @ + 1, !.message = m,
                                   !.yielded = Append(@, m), !.pc = "got"]
             [] OTHER ->
                  [feed EXCEPT !.g = "raised", !.error = raised,
                               !.pc = "finally"]
  /\ UNCHANGED <<workerVars, scan, master>>

\* the reader is exhausted: if not loop_forever: break, and the for loop of
\* main ends; otherwise the while loop opens the file again
GenEndOfFile ==
  /\ feed.pc = "next"
  /\ feed.g = "reading"
  /\ feed.i > Len(feed.file)
  /\ feed' =
       CASE ~feed.loop_forever ->
              [feed EXCEPT !.g = "returned", !.pc = "finally"]
         [] feed.loop_forever /\ feed.exists ->
              [feed EXCEPT !.i = 1, !.yielded = <<>>, !.sent = <<>>]
         [] OTHER ->
              [feed EXCEPT !.g = "raised", !.error = "FileNotFoundError",
                           !.pc = "finally"]
  /\ UNCHANGED <<workerVars, scan, master>>

\* for message in generator: if shutdown_requested: break
FeedCheckShutdown ==
  /\ feed.pc = "got"
  /\ feed' = [feed EXCEPT !.pc = IF feed.shutdown_requested THEN "finally"
                                 ELSE "produce"]
  /\ UNCHANGED <<workerVars, scan, master>>

\* producer.produce(message); message_count += 1
FeedProduce ==
  /\ feed.pc = "produce"
  /\ feed' = [feed EXCEPT !.sent = Append(@, feed.message), !.pc = "next"]
  /\ UNCHANGED <<workerVars, scan, master>>

\* finally: producer.close(), which flushes; the process ends with status
\* 1 after sys.exit(1) and with status 0 otherwise
FeedFinally ==
  /\ feed.pc = "finally"
  /\ feed' = [feed EXCEPT !.closed = TRUE,
                          !.exit_code = IF feed.error = "none" THEN <<0>>
                                        ELSE <<1>>,
                          !.pc = "exited"]
  /\ UNCHANGED <<workerVars, scan, master>>

FeedStep ==
  \/ FeedCheckFile
  \/ GenStart
  \/ GenRow
  \/ GenEndOfFile
  \/ FeedCheckShutdown
  \/ FeedProduce
  \/ FeedFinally

FeedInit ==
  /\ WorkerInit
  /\ scan = NoScan
  /\ master = NoMaster
  /\ feed \in FeedStarts

FeedNext ==
  \/ FeedStep
  \/ FeedSignalHandler
  \/ RemoveFile

FeedSpec == FeedInit /\ [][FeedNext]_vars

\* the feed keeps running: every step of main and of the generator that can
\* be taken is taken in the end (the sleeps of the generator are finite)
FairFeedSpec == FeedSpec /\ WF_vars(FeedStep)

(***************************************************************************)
(* The security master.  Every request runs in a session of its own        *)
(* (autocommit off, closed when the request ends, which rolls back what    *)
(* was not committed); its queries see what other sessions have            *)
(* committed.  Column isin of table bonds is declared unique: the          *)
(* database refuses, with IntegrityError, to store a second row with an    *)
(* isin that a committed row has.                                          *)
(***************************************************************************)
MaxRequests == 3
Isins == {"US912810TA00", "US912810TZ99"}
Requests == 1..MaxRequests

frameOfMaster == <<workerVars, scan, feed>>

\* create_bond requests that have come in, each with the isin of its body
CreateStarts ==
  {[pc |-> "serving", instruments |-> {}, bonds |-> {}, req |-> q] :
     q \in [Requests -> {[pc |-> "query", isin |-> i, status |-> 0] :
                           i \in Isins}]}

\* a committed bond row has this isin
IsinStored(isin) == \E b \in master.bonds : b.isin = isin

\* existing = db.query(Bond).filter(Bond.isin == bond_data.isin).first();
\* if existing: raise HTTPException(409)
QueryExisting(r) ==
  /\ master.pc = "serving"
  /\ master.req[r].pc = "query"
  /\ master' =
       IF IsinStored(master.req[r].isin)
         THEN [master EXCEPT !.req[r].pc = "done", !.req[r].status = 409]
         ELSE [master EXCEPT !.req[r].pc = "flush"]
  /\ UNCHANGED frameOfMaster

\* db.add(instrument); db.flush(): the instrument row is inserted inside
\* the request's transaction, where no other session sees it
FlushInstrument(r) ==
  /\ master.pc = "serving"
  /\ master.req[r].pc = "flush"
  /\ master' = [master EXCEPT !.req[r].pc = "commit"]
  /\ UNCHANGED frameOfMaster

\* db.add(bond); db.commit(): both rows become visible, and the answer is
\* 201; or the unique constraint refuses the bond row, commit raises
\* IntegrityError, which nothing catches: the answer is 500 and closing the
\* session rolls the instrument row back
CommitBond(r) ==
  /\ master.pc = "serving"
  /\ master.req[r].pc = "commit"
  /\ master' =
       IF IsinStored(master.req[r].isin)
         THEN [master EXCEPT !.req[r].pc = "done", !.req[r].status = 500]
         ELSE [master EXCEPT
                 !.instruments = @ \cup {[id |-> r, instrument_type |-> "BOND"]},
                 !.bonds = @ \cup {[instrument_id |-> r,
                                    isin |-> master.req[r].isin]},
                 !.req[r].pc = "done",
                 !.req[r].status = 201]
  /\ UNCHANGED frameOfMaster

CreateInit ==
  /\ WorkerInit
  /\ scan = NoScan
  /\ feed = NoFeed
  /\ master \in CreateStarts

CreateNext ==
  \E r \in Requests :
    \/ QueryExisting(r)
    \/ FlushInstrument(r)
    \/ CommitBond(r)

CreateSpec == CreateInit /\ [][CreateNext]_vars

(***************************************************************************)
(* The listing endpoint read page by page by a client, the stored          *)
(* instruments not changing.  The query orders by created_at alone, so     *)
(* among rows with the same created_at the database is free to return any  *)
(* order, and a different one for every query.                             *)
(***************************************************************************)
MaxStored == 3
\* the values created_at can have
CreatedAts == {1, 2}

\* the instruments tables a listing can run against
StoredInstruments ==
  {{[id |-> k, instrument_type |-> "SWAP", created_at |-> t[k]] :
      k \in DOMAIN t} :
     t \in UNION {[1..n -> CreatedAts] : n \in 0..MaxStored}}

ListStarts ==
  {[pc |-> "listing", instruments |-> rows, bonds |-> {}, page_size |-> size,
    page |-> 1, listed |-> <<>>, pages |-> 0, done |-> FALSE] :
     rows \in StoredInstruments, size \in 1..ServerPageCap}

\* the orders query.order_by(Instrument.created_at.desc()) can return the
\* rows in
Orderings(rows) ==
  {ord \in [1..Cardinality(rows) -> rows] :
     /\ \A i, j \in DOMAIN ord : i # j => ord[i] # ord[j]
     /\ \A i, j \in DOMAIN ord : i < j => ord[i].created_at >= ord[j].created_at}

\* GET /api/v1/instruments?page=..&page_size=..: the client appends the
\* items of the answer and asks for the next page until page >= pages
ListPage ==
  /\ master.pc = "listing"
  /\ ~master.done
  /\ \E ord \in Orderings(master.instruments) :
       LET resp == ListInstruments(ord, master.page, master.page_size)
       IN  master' =
             [master EXCEPT
                !.listed = @ \o resp.items,
                !.pages = resp.pages,
                !.page = IF master.page >= resp.pages THEN @ ELSE @ + 1,
                !.done = master.page >= resp.pages]
  /\ UNCHANGED frameOfMaster

ListInit ==
  /\ WorkerInit
  /\ scan = NoScan
  /\ feed = NoFeed
  /\ master \in ListStarts

ListNext == ListPage

ListSpec == ListInit /\ [][ListNext]_vars

(***************************************************************************)
(* The aggregation pass with its scan taken command by command, while      *)
(* records of the store reach the end of their time to live.               *)
(***************************************************************************)
ScanNext ==
  \/ ScanKeys
  \/ ReadHashes
  \/ SumScanned
  \/ \E i \in Instruments : Expire(i)
  \/ ResumeCommit

ScanSpec == AggFnInit /\ [][ScanNext]_vars

(***************************************************************************)
(* Runs on the ticks at the edges of update_rates, in which nothing else   *)
(* fails.                                                                  *)
(***************************************************************************)
CurveNext ==
  \/ PollMessageFrom(CurveMessages, MaxMsgs)
  \/ PollNone
  \/ ContinuePoll
  \/ DecodeYield
  \/ ResumeCommit
  \/ BeginProcess({})
  \/ UpdateRates
  \/ UpdateRatesFails
  \/ WriteYieldCurve
  \/ LoopNext(0)
  \/ LoopDone
  \/ PriceBase
  \/ DV01BumpUp
  \/ DV01PriceUp
  \/ DV01BumpDown
  \/ DV01PriceDown
  \/ DV01Finally
  \/ KrdNext
  \/ KrdPriceUp
  \/ KrdBumpDown
  \/ KrdPriceDown
  \/ KrdFinally
  \/ WriteRisk
  \/ PublishRisk
  \/ AfterProcess
  \/ MainExcept

CurveSpec == Init /\ [][CurveNext]_vars

(***************************************************************************)
(* Properties.                                                             *)
(***************************************************************************)
\* the offset of a decoded tick is committed by this step
TickCommitted == committed' > committed /\ msg.kind = "tick"

\* C1: when calculate is left, by return or by exception, every one of the
\* 11 quotes has the value it had when calculate was entered
C1_QuotesRestored ==
  pc \in {"write_risk", "instr_except"} => quotes = entry_quotes

\* C1 witness: the pricer raised in the down repricing of the second KRD
\* tenor, on quotes set by a tick, and calculate has been left
C1_Witness ==
  /\ pc = "instr_except"
  /\ raise_at = KrdPointUp(2) + 1
  /\ entry_quotes = RatesFull
  /\ quotes = entry_quotes

\* C2: the offset of a tick is committed only when write_risk has been
\* called, for that tick, for every instrument whose pricing does not raise
C2_CommitAfterRiskCalls ==
  [][TickCommitted =>
       \A i \in Instruments \ failing : i \in Range(risk_calls)]_vars

\* the curve snapshot and the risk record of every instrument that priced
\* are in the store for the tick in hand
PublicationComplete ==
  curve_written /\ \A i \in Instruments : i \in failing \/ i \in risk_written

\* C3: no tick is skipped: the offset of a tick is committed only after its
\* curve snapshot and its per-instrument risk publication have completed, so
\* that a restart from the committed offset redelivers every other tick
C3_CommittedTickPublished ==
  [][TickCommitted => PublicationComplete]_vars

\* C4: once a store write has failed while a tick is handled, the offset of
\* that tick is not committed
C4_StoreFailureSkipsCommit ==
  [][store_failed => committed' = committed]_vars

\* C5: a message that cannot be decoded, invalid UTF-8 included, is
\* committed and dropped, and the consumer polls again
C5_UndecodableCommittedAndDropped ==
  [][(pc = "decode" /\ msg.kind \in {"bad_json", "bad_utf8"}
        /\ pc' # pc /\ crashes' = crashes)
       => (committed' = position - 1 /\ pc' = "poll")]_vars

\* C6: after a shutdown signal the worker eventually has closed the bus
\* consumer and the store connection
C6_ShutdownEventuallyCloses ==
  shutdown_requested ~> (consumer_closed /\ redis_closed)

RECURSIVE Without(_, _)
Without(seq, S) ==
  IF seq = <<>> THEN <<>>
  ELSE IF Head(seq) \in S THEN Without(Tail(seq), S)
  ELSE <<Head(seq)>> \o Without(Tail(seq), S)

\* C8: when the instrument loop of a tick is over, write_risk has been
\* called exactly for the instruments whose pricing did not raise, in
\* portfolio order
C8_FailuresSkippedOthersWritten ==
  pc = "after_process" => risk_calls = Without(portfolio, failing)

\* C8 witness: the first instrument failed and the second was still written
C8_Witness ==
  /\ pc = "after_process"
  /\ failing = {"bond1"}
  /\ risk_calls = <<"swap1">>

\* C10: after a crash between the publication of a tick and its commit,
\* a restart and the replay of the tick, the store holds what it held at
\* the crash (history compared within the retention window of the replay)
C10_ReplayLeavesStoreIdentical ==
  (/\ snapshot.taken
   /\ pc = "resume"
   /\ position - 1 = snapshot.offset
   /\ PublicationComplete)
    => /\ trade_risk = snapshot.trade_risk
       /\ yc_latest = snapshot.yc_latest
       /\ yc_history = ZRemRangeByScore(snapshot.yc_history, now - HourMs)

\* C11: after every tick that has been processed and committed with
\* timestamp t, yield_curve:latest has timestamp t and no rate field but
\* those of that tick, and every risk record of a portfolio instrument in
\* the store has curve_timestamp t
C11_StoreReflectsCommittedTick ==
  [][TickCommitted =>
       /\ "timestamp" \in DOMAIN yc_latest
       /\ yc_latest["timestamp"] = Str(msg.timestamp)
       /\ DOMAIN yc_latest = DOMAIN RateFields(msg.rates) \cup {"timestamp"}
       /\ \A i \in Instruments :
            trade_risk[i].present
              => trade_risk[i].hash["curve_timestamp"] = Str(msg.timestamp)]_vars

\* C12: update_rates sets the quote of every recognized tenor present in
\* rates to the given value, leaves the quote of every recognized tenor
\* absent from rates as it was, and creates or changes no quote for a tenor
\* outside the 11
C12_UpdateRatesFrame ==
  [][(pc = "update_rates" /\ pc' = "write_yield_curve") =>
       /\ DOMAIN quotes' = TenorSet
       /\ \A t \in TenorSet :
            quotes'[t] = IF t \in DOMAIN msg.rates THEN msg.rates[t] ELSE quotes[t]]_vars

\* C12 witness: after a tick quoting every tenor, update_rates has applied
\* a tick quoting 2Y and the unknown 15Y: 2Y is set, 5Y is kept, and there
\* is no quote for 15Y
C12_Witness ==
  /\ pc = "write_yield_curve"
  /\ msg = TickPartial
  /\ quotes["2Y"] = RatesPartial["2Y"]
  /\ quotes["5Y"] = RatesFull["5Y"]
  /\ "15Y" \notin DOMAIN quotes

\* C13: on a tick in which the rate of a recognized tenor is no number,
\* update_rates skips that tenor, whose quote stays, applies every other
\* recognized tenor of the tick, and the tick goes on to be published
C13_NonNumericRateSkipped ==
  [][(pc = "update_rates" /\ pc' # pc) =>
       /\ pc' = "write_yield_curve"
       /\ \A t \in TenorSet :
            quotes'[t] = IF t \in DOMAIN msg.rates \ NonNumeric(msg)
                           THEN msg.rates[t] ELSE quotes[t]]_vars

\* C14: a tick whose rates map is empty or holds only unrecognized tenors
\* changes no quote in update_rates, and write_yield_curve still sets the
\* timestamp of yield_curve:latest to the tick's
C14_EmptyRatesKeepQuotes ==
  [][(msg.kind = "tick" /\ DOMAIN msg.rates \cap TenorSet = {}) =>
       /\ (pc = "update_rates" /\ pc' # pc) =>
            (quotes' = quotes /\ pc' = "write_yield_curve")
       /\ (pc = "write_yield_curve" /\ pc' # pc) =>
            /\ "timestamp" \in DOMAIN yc_latest'
            /\ yc_latest'["timestamp"] = Str(msg.timestamp)]_vars

\* C14 witness: a tick carrying only the unknown tenor 15Y has been applied
\* and written after a full tick: the quotes are those of the full tick and
\* the timestamp is the new one
C14_Witness ==
  /\ pc = "loop"
  /\ msg = TickUnknownOnly
  /\ curve_written
  /\ quotes = RatesFull
  /\ yc_latest["timestamp"] = Str(TickUnknownOnly.timestamp)

\* C15: when the portfolio loader returns no instrument, the worker exits
\* at startup with the bus consumer never opened: nothing is polled and
\* nothing is committed in that run
C15_EmptyPortfolioExitsBeforeConsumer ==
  stop_cause = "empty_portfolio" =>
    /\ pc = "exited"
    /\ exit_code # <<>>
    /\ ~consumer_open
    /\ position = 1
    /\ committed = 0

\* C15 witness: the loader returned no instrument and the process has ended
C15_Witness ==
  pc = "exited" /\ stop_cause = "empty_portfolio" /\ ~consumer_open

\* C16: the exit code is 0 after a shutdown on signal, 1 when
\* initialization fails (the empty portfolio included) and 2 when a fatal
\* runtime error ends the consume loop
C16_ExitCodeTellsEnding ==
  exit_code # <<>> =>
    exit_code =
      <<CASE stop_cause = "shutdown" -> 0
          [] stop_cause \in {"init_error", "empty_portfolio"} -> 1
          [] stop_cause \in {"bus_error", "decode_error"} -> 2>>

\* C17: a store write whose first attempt fails while a second attempt
\* would succeed is retried inside the writing operation: the operation
\* succeeds and the tick is not failed
C17_TransientWriteRetried ==
  [][(outage = 1 /\ pc \in {"write_yield_curve", "write_risk"} /\ pc' # pc)
       => (pc' \in {"loop", "publish_risk"} /\ ~store_failed')]_vars

\* C18: the aggregation pass runs after the k-th well-formed tick consumed
\* if and only if k is a multiple of 5, whatever the interleaving of ticks,
\* poison pills and ticks whose processing fails
C18_AggregationEveryFifthTick ==
  pc = "resume" => (agg_pass # "none" <=> ticks_seen % AggregateEvery = 0)

\* C18, amended: the aggregation pass runs after a tick if and only if the
\* processing of that tick returned and it is the 5th, 10th, ... tick of
\* this process whose processing returned; a tick whose processing raised
\* is not counted
C18_AggregationEveryFifthProcessedTick ==
  pc = "resume" =>
    (agg_pass # "none" <=> (curve_written /\ ticks_returned % AggregateEvery = 0))

\* C18 witness: the pass has run after the sixth tick consumed, one of the
\* six having failed
C18_Witness ==
  /\ pc = "resume"
  /\ agg_pass = "written"
  /\ ticks_seen = AggregateEvery + 1
  /\ ticks_returned = AggregateEvery

\* the sum over the records S of field f, a field that is absent or does
\* not parse counting as 0
RECURSIVE SumParsed(_, _, _)
SumParsed(risks, S, f) ==
  IF S = {} THEN 0
  ELSE LET id == CHOOSE i \in S : TRUE
       IN  (IF f \in DOMAIN risks[id] /\ IsNumeric(risks[id][f])
              THEN Float(risks[id][f]) ELSE 0)
           + SumParsed(risks, S \ {id}, f)

\* C19: the aggregation pass writes totals that are the sums of the
\* fields over exactly the records it counts, and instrument_count is the
\* number of those records; every record that parses is counted, and a
\* record with an unparsable field is either in sums and count or in neither
C19_AggregatesSumCountedRecords ==
  (pc = "resume" /\ agg_pass = "written") =>
    LET risks == GetAllTradeRisks(trade_risk)
        whole == {id \in DOMAIN risks :
                    \A k \in DOMAIN AggFields :
                      IsNumeric(FieldText(risks[id], AggFields[k]))}
    IN  \E S \in SUBSET DOMAIN risks :
          /\ whole \subseteq S
          /\ aggregates["instrument_count"] = Str(Cardinality(S))
          /\ \A k \in DOMAIN AggFields :
               aggregates["total_" \o AggFields[k]]
                 = Str(SumParsed(risks, S, AggFields[k]))

C21_HistoryPrunedAtWrite ==
  [][(pc = "write_yield_curve" /\ pc' = "loop")
       => \A e \in yc_history' : e.score >= now' - HourMs]_vars

\* a tick stamped more than an hour ago has been written: it is the latest
\* curve and has no entry in the history
C21_Witness ==
  /\ pc = "loop"
  /\ msg = TickStale
  /\ curve_written
  /\ yc_latest["timestamp"] = Str(TickStale.timestamp)
  /\ TickStale.timestamp < now - HourMs
  /\ \A e \in yc_history : e.member # TickStale.rates

\* C22: the DV01 that calculate returns is (P_down - P_up) / 2, where P_up is
\* the price with all 11 quotes at base + bump, P_down the price with all 11
\* at base - bump, and base the quotes at entry to calculate.
C22_Dv01CentralDifference ==
  /\ pc = "dv01_price_up"
       => quotes = [t \in TenorSet |-> entry_quotes[t] + bump_size]
  /\ pc = "dv01_price_down"
       => /\ quotes = [t \in TenorSet |-> entry_quotes[t] - bump_size]
          /\ npv_up = Price(portfolio[idx],
                            [t \in TenorSet |-> entry_quotes[t] + bump_size],
                            evaluation_date)
  /\ pc = "write_risk"
       => 2 * dv01 =
            Price(portfolio[idx],
                  [t \in TenorSet |-> entry_quotes[t] - bump_size],
                  evaluation_date)
            - Price(portfolio[idx],
                    [t \in TenorSet |-> entry_quotes[t] + bump_size],
                    evaluation_date)

\* calculate has returned a DV01 that is not zero, on the quotes of a partial
\* tick applied over a full one
C22_Witness ==
  /\ pc = "write_risk"
  /\ dv01 # 0
  /\ entry_quotes = [RatesFull EXCEPT !["2Y"] = 430]

\* C28: each key rate duration is computed in isolation: while calculate
\* reprices for KRD tenor t the quote of t is base + bump or base - bump and
\* every other quote has its base value, and the krd map that calculate
\* returns has exactly the keys 2Y, 5Y, 10Y, 30Y with
\* krd[t] = (P_down(t) - P_up(t)) / 2.
C28_KrdIsolated ==
  /\ pc = "krd_price_up"
       => quotes = [entry_quotes EXCEPT ![KRD_TENORS[krd_k]] = @ + bump_size]
  /\ pc = "krd_price_down"
       => /\ quotes =
               [entry_quotes EXCEPT ![KRD_TENORS[krd_k]] = @ - bump_size]
          /\ npv_up =
               Price(portfolio[idx],
                     [entry_quotes EXCEPT ![KRD_TENORS[krd_k]] = @ + bump_size],
                     evaluation_date)
  /\ pc = "write_risk"
       => /\ DOMAIN krd = KrdSet
          /\ \A t \in KrdSet :
               2 * krd[t] =
                 Price(portfolio[idx],
                       [entry_quotes EXCEPT ![t] = @ - bump_size],
                       evaluation_date)
                 - Price(portfolio[idx],
                         [entry_quotes EXCEPT ![t] = @ + bump_size],
                         evaluation_date)

\* calculate has returned the four key rate durations of the second
\* instrument of the portfolio, not all of them zero and not all equal
C28_Witness ==
  /\ pc = "write_risk"
  /\ idx = 2
  /\ DOMAIN krd = KrdSet
  /\ \E t, u \in KrdSet : krd[t] # 0 /\ krd[u] # krd[t]

\* the well-formed BOND and SWAP items of a listing, in listing order
WellFormed(item) ==
  \/ /\ item.instrument_type = "BOND"
     /\ item.notional.lit = "number"
  \/ /\ item.instrument_type = "SWAP"
     /\ item.notional.lit = "number"
     /\ "fixed_rate" \in DOMAIN item
     /\ item.fixed_rate.lit = "number"

\* C23: load_portfolio returns, in listing order, exactly one typed
\* instrument for every well-formed BOND or SWAP item of pages 1..P of the
\* listing, asking for a page_size of at most the service's cap; an item
\* that fails parsing is dropped and neither aborts the load nor drops
\* another item.
C23_LoadReturnsWellFormedItems ==
  pc = "check_portfolio" =>
    LET good == SelectSeq(listing, WellFormed)
        got == main_portfolio[1]
    IN  /\ page_size <= ServerPageCap
        /\ Len(got) = Len(good)
        /\ \A i \in DOMAIN got :
             /\ got[i].id = good[i].id
             /\ got[i].type =
                  (IF good[i].instrument_type = "BOND" THEN "BondData"
                   ELSE "SwapData")

\* a listing of two pages with a bad item on the first page and a
\* well-formed one on the second has been loaded
C23_Witness ==
  /\ pc = "check_portfolio"
  /\ listing = <<ItemBadBond, ItemOther, ItemSwap>>
  /\ page = 2
  /\ Len(main_portfolio[1]) = 1

\* C24: when the reference service is unreachable or answers non-2xx on any
\* page, the first or a later one, load_portfolio raises and hands main no
\* portfolio, not even the items of the pages read before, and the worker
\* exits with status 1 without having opened the store connection or the
\* bus consumer.
C24_LoadFailureExitsBeforeHandles ==
  (stop_cause = "init_error" /\ main_portfolio = <<>>)
    => /\ pc = "exited"
       /\ exit_code = <<1>>
       /\ ~redis_open
       /\ ~consumer_open

\* the request of the second page failed after the first page had given a
\* well-formed instrument
C24_Witness ==
  /\ pc = "exited"
  /\ stop_cause = "init_error"
  /\ page = 2
  /\ instruments # <<>>
  /\ main_portfolio = <<>>
  /\ exit_code = <<1>>

\* C25: a notification {instrument_id: i, timestamp: t} is on channel
\* risk_updates only when the store already holds trade:i:risk with
\* curve_timestamp t and its TTL set, so a subscriber that reads the record
\* on receiving the notification sees the record of tick t.
C25_NotificationAfterRecord ==
  risk_updates # NoMsg =>
    LET rec == trade_risk[risk_updates.instrument_id]
    IN  /\ rec.present
        /\ rec.hash["curve_timestamp"] = Str(risk_updates.timestamp)
        /\ rec.ttl = RedisTtl

\* the notification of the second instrument is out for a tick that was
\* delivered again after a crash
C25_Witness ==
  /\ pc = "loop"
  /\ crashes = 1
  /\ risk_updates =
       [instrument_id |-> "swap1", timestamp |-> TickPartial.timestamp]
  /\ trade_risk["swap1"].present
  /\ trade_risk["swap1"].hash["curve_timestamp"] = Str(TickPartial.timestamp)

\* C26: every trade:{id}:risk key in the store carries a TTL, the configured
\* one as of its last write: the hash write and the expiry are applied in
\* one atomic batch, so no failure, crash or interleaving leaves a record
\* without expiry.
C26_RiskRecordHasTtl ==
  \A i \in Instruments :
    trade_risk[i].present => trade_risk[i].ttl = RedisTtl

\* a record written before a crash has been overwritten by the restarted
\* worker, and a store write of the tick failed
C26_Witness ==
  /\ pc = "publish_risk"
  /\ crashes = 1
  /\ idx = 2
  /\ store_failed
  /\ trade_risk["bond1"].present
  /\ trade_risk["swap1"].present
  /\ trade_risk["swap1"].ttl = RedisTtl
  /\ trade_risk["bond1"].hash["curve_timestamp"]
       # trade_risk["swap1"].hash["curve_timestamp"]

\* C27: across any sequence of update_rates calls the curve is built exactly
\* once, on the first call, and its handle is never replaced: every call of
\* update_rates, the first included, ends with the curve built.
C27_CurveBuiltOnFirstCall ==
  [][(pc = "update_rates" /\ pc' \in {"write_yield_curve", "main_except"})
       => curve_built']_vars

\* C29: ticks are handled one at a time in delivery order, every store write
\* of a tick coming before update_rates of the next, so every risk record
\* written with curve_timestamp t was computed from the quote vector
\* obtained by applying the ticks up to and including t: when calculate has
\* returned the metrics that write_risk is about to store, the quotes it
\* started from are those of all ticks applied so far.
C29_RecordFromQuotesOfAllTicks ==
  pc = "write_risk" => entry_quotes = applied

\* C30: for a tick on which the aggregation pass runs, the offset of the
\* tick is committed before the aggregation starts, so that no failure or
\* crash during the aggregation leaves the tick uncommitted.
C30_CommittedBeforeAggregation ==
  pc = "aggregate" => committed >= position - 1

\* C31: writing the curve of a tick whose timestamp lies inside the
\* retention window and is not yet a score of the history adds an entry
\* scored by that timestamp and keeps every entry still inside the window,
\* whatever the rates are (so k such ticks leave k entries)
C31_HistoryOneEntryPerTick ==
  [][(/\ pc = "write_yield_curve" /\ pc' = "loop"
      /\ msg.timestamp > now' - HourMs
      /\ \A e \in yc_history : e.score # msg.timestamp)
     => /\ [member |-> msg.rates, score |-> msg.timestamp] \in yc_history'
        /\ \A e \in yc_history : e.score > now' - HourMs => e \in yc_history']_vars

\* C32: the map get_all_trade_risks returns holds no entry with empty
\* fields: a key that left the store between its SCAN and its HGETALL adds
\* no entry, so the aggregation counts no record that is gone
C32_ScanReturnsNoEmptyEntry ==
  pc = "scan_return" => \A id \in DOMAIN scan.result : scan.result[id] # EmptyHash

\* C33: when the process has ended, by the finally clause or by sys.exit,
\* the store connection is closed if it was opened and the consumer is
\* closed if it was opened
C33_OpenedHandlesClosedAtExit ==
  pc \in {"stopped", "exited"} =>
    /\ redis_open => redis_closed
    /\ consumer_open => consumer_closed

\* the messages of the rows of a file whose timestamp parses, in file order
RECURSIVE ParsedRows(_)
ParsedRows(file) ==
  IF file = <<>> THEN <<>>
  ELSE LET row == Head(file)
       IN  (IF RowTimestampRaises(row) = "none"
              THEN <<FormatKafkaMessage(row, ParseTimestamp(row.timestamp))>>
              ELSE <<>>) \o ParsedRows(Tail(file))

\* C34: with loop_forever false and no shutdown, the generator has either
\* raised FileNotFoundError without yielding (the file is missing) or
\* returned after yielding, in file order, exactly one message for every
\* row whose timestamp parses, rows with a missing or unparsable timestamp
\* being skipped
C34_GeneratorOnePass ==
  (/\ feed.pc = "exited" /\ feed.g # "unstarted"
   /\ ~feed.loop_forever /\ ~feed.shutdown_requested)
  => \/ feed.error = "FileNotFoundError" /\ feed.yielded = <<>>
     \/ feed.g = "returned" /\ feed.yielded = ParsedRows(feed.file)

\* C35: the rates of a message built by format_kafka_message have only
\* recognized tenors as keys and the number float() read as value; a tenor
\* whose column is absent, None, empty or not parsable is not a key
C35_RatesNumericRecognized ==
  feed.pc = "got" =>
    LET row == feed.file[feed.i - 1]
        rates == feed.message.rates
    IN  /\ DOMAIN rates \subseteq TenorSet
        /\ \A t \in DOMAIN rates :
             /\ t \in DOMAIN row
             /\ Truthy(row[t])
             /\ IsNumeric(row[t])
             /\ rates[t] = Float(row[t])
        /\ \A t \in TenorSet :
             (t \in DOMAIN row /\ IsNumeric(row[t])) => t \in DOMAIN rates

\* C35 witness: a message is built from a row that has a numeric tenor, an
\* unparsable one, an empty one and a column that is no recognized tenor
C35_Witness ==
  /\ feed.pc = "got"
  /\ feed.file[feed.i - 1] = RowA
  /\ DOMAIN feed.message.rates = {"2Y"}

\* C36: once the shutdown flag of the feed is set, the feed process ends
C36_FeedShutdownEventuallyExits ==
  (feed.pc # "off" /\ feed.shutdown_requested) ~> (feed.pc = "exited")

\* C37: no two stored bonds share an ISIN, and a create that has been
\* answered either stored its bond and its instrument (201) or, its ISIN
\* being stored already, was answered 409 and stored neither row
C37_UniqueIsinConflictAnswered409 ==
  /\ \A b1, b2 \in master.bonds : b1.isin = b2.isin => b1 = b2
  /\ \A r \in Requests :
       master.req[r].pc = "done" =>
         \/ /\ master.req[r].status = 201
            /\ [id |-> r, instrument_type |-> "BOND"] \in master.instruments
            /\ [instrument_id |-> r, isin |-> master.req[r].isin] \in master.bonds
         \/ /\ master.req[r].status = 409
            /\ IsinStored(master.req[r].isin)
            /\ \A i \in master.instruments : i.id # r
            /\ \A b \in master.bonds : b.instrument_id # r

\* the least k with k * b >= a
CeilDiv(a, b) == CHOOSE k \in 0..a : k * b >= a /\ (k = 0 \/ (k - 1) * b < a)

\* C38: when the client has read pages 1..pages of an unchanged table, the
\* page count reported is max(1, ceil(total / page_size)) and the items
\* read are every stored instrument exactly once, also when instruments
\* share their created_at
C38_PagesCoverEveryInstrumentOnce ==
  (master.pc = "listing" /\ master.done) =>
    LET total == Cardinality(master.instruments)
        ceil == CeilDiv(total, master.page_size)
    IN  /\ master.pages = IF ceil > 1 THEN ceil ELSE 1
        /\ Len(master.listed) = total
        /\ {master.listed[k] : k \in DOMAIN master.listed} = master.instruments

====
